---- MODULE Spec2Model ----
(***************************************************************************)
(* A model of the dBase file engine of wing32s/dbase: the .DBF table codec *)
(* and the .DBT memo codec of dbf_module.py and the .NDX index engine of   *)
(* ndx_module.py.  Files are sequences of bytes (0..255); file offset o is *)
(* index o + 1 of the sequence.  Text is a sequence of character codes.    *)
(***************************************************************************)
EXTENDS Integers, Sequences, FiniteSets, TLC

VARIABLES
    dbfFile,    \* bytes of the .DBF file (<<>>: no file)
    hdr,        \* DBFFile.header, the cached header of the open handle
    filePos,    \* position of DBFFile.file
    nAppended,  \* ghost: rows appended through the handle since create
    lastOp,     \* ghost: the last table operation and its arguments
    nOps,       \* ghost: table operations done so far
    prevFile,   \* ghost: dbfFile before the last table operation
    headerHit,  \* ghost: a write-row was issued at a position inside the header
    dbt,        \* bytes of the .DBT file (<<>>: no file)
    memoLog,    \* ghost: the completed memo writes, oldest first
    pend,       \* the append memo write in progress (before: ghost, the
                \* memo file when it began), or None
    nCrash,     \* ghost: memo writes that stopped before completing
    justWrote,  \* ghost: the last step completed a memo write
    outTable,   \* what compact_dbf produced (output .DBF and .DBT), or None
    ndxFile,    \* bytes of the .NDX file (<<>>: no file)
    ndxField,   \* ghost: number of the field the index was built on, or 0
    lastFind,   \* ghost: the last index search, its argument and result
    schema,     \* ghost: the header handed to dbf_file_create, or None
    opened,     \* what dbf_file_open returned after the close, or None
    flt,        \* a call of process_multi_group_filter in progress, or None
    qry,        \* a DBFQuery and what execute returned, or None
    heap,       \* the field specs and the HeapMap of a heap build, or None
    opn,        \* what dbf_file_open returned for the file on disk, or None
    xfer,       \* a table taken through the text export and import, or None
    walk,       \* a cursor over an index file and what it emitted, or None
    bmp         \* a Bitmap and the last call on it, or None

vars == <<dbfFile, hdr, filePos, nAppended, lastOp, nOps, prevFile, headerHit,
          dbt, memoLog, pend, nCrash, justWrote,
          outTable, ndxFile, ndxField, lastFind, schema, opened, flt, qry, heap,
          opn, xfer, walk, bmp>>

tableVars == <<dbfFile, hdr, filePos, nAppended, lastOp, nOps, prevFile, headerHit>>
memoVars == <<dbt, memoLog, pend, nCrash, justWrote>>
laterVars == <<opn, xfer, walk, bmp>>
pureVars == <<flt, qry, heap, opn, xfer, walk, bmp>>
extraVars == <<schema, opened, flt, qry, heap, opn, xfer, walk, bmp>>
restVars == <<outTable, ndxFile, ndxField, lastFind, schema, opened, flt, qry, heap,
             opn, xfer, walk, bmp>>

None == [none |-> TRUE]

\* no open attempt, text transfer, index walk or bitmap is under way
LaterIdle == opn = None /\ xfer = None /\ walk = None /\ bmp = None

\* no filter, query or heap build is under way
PureIdle == flt = None /\ qry = None /\ heap = None /\ LaterIdle

\* no table was created and reopened through the header machine
ExtraIdle == schema = None /\ opened = None /\ PureIdle

----------------------------------------------------------------------------
(* Bounds *)

MaxWrites == 2      \* completed memo writes in one behaviour
MaxCrashes == 1     \* memo writes that stop midway in one behaviour
MaxAtBlock == 2     \* highest block number handed to a write-at-block
MaxHeaderOps == 2   \* header updates and appends between create and reopen

----------------------------------------------------------------------------
(* Bytes, integers and files *)

Min(a, b) == IF a < b THEN a ELSE b
Max(a, b) == IF a > b THEN a ELSE b

Zeros(n) == [i \in 1..n |-> 0]
Fill(n, b) == [i \in 1..n |-> b]

\* struct.pack("<L", n) / struct.unpack("<L", b)
pack_u32_le(n) ==
    <<n % 256, (n \div 256) % 256, (n \div 65536) % 256, (n \div 16777216) % 256>>
unpack_u32_le(b) == b[1] + 256 * b[2] + 65536 * b[3] + 16777216 * b[4]

\* struct.pack(">L", n) / struct.unpack(">L", b)
pack_u32_be(n) ==
    <<(n \div 16777216) % 256, (n \div 65536) % 256, (n \div 256) % 256, n % 256>>
unpack_u32_be(b) == 16777216 * b[1] + 65536 * b[2] + 256 * b[3] + b[4]

\* struct.pack("<H", n) / struct.unpack("<H", b)
pack_u16_le(n) == <<n % 256, (n \div 256) % 256>>
unpack_u16_le(b) == b[1] + 256 * b[2]

\* f.seek(pos); f.write(data): a seek past the end leaves a gap of zeros
file_write(f, pos, data) ==
    LET base == IF Len(f) < pos THEN f \o Zeros(pos - Len(f)) ELSE f
    IN SubSeq(base, 1, pos) \o data
       \o SubSeq(base, pos + Len(data) + 1, Len(base))

\* f.seek(pos); f.read(n): short at the end of the file
file_read(f, pos, n) == SubSeq(f, pos + 1, Min(Len(f), pos + n))

----------------------------------------------------------------------------
(* Character codes *)

SP == 32            \* ' '
STAR == 42          \* '*'
EOF_MARK == 26      \* 0x1A
HDR_TERM == 13      \* 0x0D
CH_0 == 48          \* '0'
CH_C == 67
CH_D == 68
CH_M == 77
CH_N == 78

upper(c) == IF c >= 97 /\ c <= 122 THEN c - 32 ELSE c

----------------------------------------------------------------------------
(* Table header: DBFHeader, init_dbf_header, write_dbf_header *)

DBF_LANG_US == 1
DBF_MEMO_BLOCK_SIZE == 512

DBFColumn(name, type, length, decimals) ==
    [name |-> name, field_type |-> type, length |-> length,
     decimals |-> decimals, offset |-> 0]

DBFHeader(version, fields) ==
    [version |-> version, year |-> 0, month |-> 0, day |-> 0,
     record_count |-> 0, header_size |-> 0, record_size |-> 0,
     table_flags |-> 0, language_driver |-> 0,
     fields |-> fields, field_count |-> Len(fields)]

has_memo_field(header) ==
    \E i \in 1..Len(header.fields) : upper(header.fields[i].field_type) = CH_M

RECURSIVE SumLen(_, _)
SumLen(fields, n) == IF n = 0 THEN 0 ELSE SumLen(fields, n - 1) + fields[n].length

\* the offset loop shared by read_dbf_header and init_dbf_header
with_offsets(fields) ==
    [i \in 1..Len(fields) |-> [fields[i] EXCEPT !.offset = 1 + SumLen(fields, i - 1)]]

\* an initialisation that keeps whatever non-zero version the caller set
init_keep_version(header) ==
    [header EXCEPT
        !.table_flags = 0,
        !.language_driver = IF header.version = 3 THEN 0
                            ELSE IF header.language_driver = 0 THEN DBF_LANG_US
                            ELSE header.language_driver,
        !.version = IF header.version = 0
                    THEN (IF has_memo_field(header) THEN 5 ELSE 4)
                    ELSE header.version,
        !.record_count = 0,
        !.fields = with_offsets(header.fields),
        !.record_size = 1 + SumLen(header.fields, Len(header.fields)),
        !.header_size = 32 + (header.field_count * 32) + 1]

init_dbf_header(header) ==
    LET has_memo == has_memo_field(header)
        lang == IF header.version = 3 THEN 0
                ELSE IF header.language_driver = 0 THEN DBF_LANG_US
                ELSE header.language_driver
        ver == IF header.version = 0 THEN (IF has_memo THEN 5 ELSE 4)
               ELSE IF header.version = 4 /\ has_memo THEN 5
               ELSE IF header.version = 5 /\ ~has_memo THEN 4
               ELSE header.version
    IN [header EXCEPT
            !.table_flags = 0,
            !.language_driver = lang,
            !.version = ver,
            !.record_count = 0,
            !.fields = with_offsets(header.fields),
            !.record_size = 1 + SumLen(header.fields, Len(header.fields)),
            !.header_size = 32 + (header.field_count * 32) + 1]

\* str.encode('ascii', errors='replace') of one character
ascii_replace(c) == IF c < 128 THEN c ELSE 63

\* write_dbf_header, lines 213-219: buf[:len(name)] = name[:11] makes the
\* buffer shorter when the name has more than 11 characters (names of more
\* than 25 characters raise IndexError and are not handed to it here)
field_descriptor(field) ==
    LET n == Len(field.name)
        buf == [i \in 1..Min(n, 11) |-> ascii_replace(field.name[i])]
               \o Zeros(32 - Min(n, 32))
    IN [i \in 1..Len(buf) |->
           IF i = 12 THEN field.field_type
           ELSE IF i = 17 THEN field.length
           ELSE IF i = 18 THEN field.decimals
           ELSE buf[i]]

RECURSIVE field_descriptors(_, _)
field_descriptors(fields, n) ==
    IF n = 0 THEN <<>>
    ELSE field_descriptors(fields, n - 1) \o field_descriptor(fields[n])

write_dbf_header(header) ==
    LET buf == <<header.version, header.year, header.month, header.day>>
               \o pack_u32_le(header.record_count)
               \o pack_u16_le(header.header_size)
               \o pack_u16_le(header.record_size)
               \o Zeros(16)
               \o <<header.table_flags, header.language_driver, 0, 0>>
    IN buf \o field_descriptors(header.fields, header.field_count)
           \o <<HDR_TERM>> \o <<EOF_MARK>>

dbf_memo_create ==
    pack_u32_le(1) \o pack_u16_le(DBF_MEMO_BLOCK_SIZE) \o Zeros(DBF_MEMO_BLOCK_SIZE - 6)

\* dbf_file_create: the created file, the handle's header and the memo file
dbf_file_create(header) ==
    LET h == init_dbf_header(header)
    IN [file |-> write_dbf_header(h), header |-> h, pos |-> 0,
        memo |-> IF h.version = 5 THEN dbf_memo_create ELSE <<>>]

dbf_file_create_dbase3(header) ==
    dbf_file_create([header EXCEPT !.version = 3, !.table_flags = 0,
                                   !.language_driver = 0])

----------------------------------------------------------------------------
(* Memo codec: dbf_memo_write_buffer, dbf_memo_write_buffer_at_block,      *)
(* dbf_memo_get_info, dbf_memo_read_buffer                                 *)

\* _get_dbf_version: first byte of the companion .DBF, 0x04 without one
_get_dbf_version(dbf) == IF Len(dbf) >= 1 THEN dbf[1] ELSE 4

is_dbase3(dbf) == _get_dbf_version(dbf) = 3

\* dbf_memo_write_buffer, lines 922-938: the memo file the write works on
memo_open_or_create(memo) == IF memo = <<>> THEN dbf_memo_create ELSE memo

\* dbf_memo_write_buffer, lines 926-930: next free block read from block 0
memo_next_free(memo) ==
    LET next_free == unpack_u32_le(file_read(memo_open_or_create(memo), 0, 4))
    IN IF next_free < 1 THEN 1 ELSE next_free

memo_total_len(dbase3, data) ==
    IF dbase3 THEN Len(data) + 1 ELSE 8 + Len(data) + 1

blocks_needed_tight(total_len) == total_len \div DBF_MEMO_BLOCK_SIZE + 1

memo_blocks_needed(total_len) ==
    (total_len + DBF_MEMO_BLOCK_SIZE - 1) \div DBF_MEMO_BLOCK_SIZE

\* the byte strings dbf_memo_write_buffer hands to f.write, in order
memo_write_segments(dbase3, memo_type, data) ==
    LET total_len == memo_total_len(dbase3, data)
        pad_len == (memo_blocks_needed(total_len) * DBF_MEMO_BLOCK_SIZE) - total_len
        body == IF dbase3 THEN <<data, <<EOF_MARK>>>>
                ELSE <<pack_u32_le(memo_type), pack_u32_le(Len(data)),
                       data, <<EOF_MARK>>>>
    IN IF pad_len > 0 THEN Append(body, Zeros(pad_len)) ELSE body

RECURSIVE write_all(_, _, _)
write_all(f, pos, segs) ==
    IF segs = <<>> THEN f
    ELSE write_all(file_write(f, pos, Head(segs)), pos + Len(Head(segs)), Tail(segs))

\* dbf_memo_write_buffer run to completion: the memo file and the block
dbf_memo_write_buffer(dbf, memo, memo_type, data) ==
    LET dbase3 == is_dbase3(dbf)
        start_block == memo_next_free(memo)
        body == write_all(memo_open_or_create(memo),
                          start_block * DBF_MEMO_BLOCK_SIZE,
                          memo_write_segments(dbase3, memo_type, data))
        next_free == start_block + memo_blocks_needed(memo_total_len(dbase3, data))
    IN [memo |-> file_write(body, 0, pack_u32_le(next_free)), block |-> start_block]

\* dbf_memo_write_buffer_at_block, lines 1255-1260
at_block_blocks_needed(dbase3, data_len) ==
    IF dbase3
    THEN (data_len + 1 + DBF_MEMO_BLOCK_SIZE - 1) \div DBF_MEMO_BLOCK_SIZE
    ELSE (8 + data_len + DBF_MEMO_BLOCK_SIZE - 1) \div DBF_MEMO_BLOCK_SIZE

dbf_memo_write_buffer_at_block(dbf, memo, memo_type, data, block_num) ==
    LET dbase3 == is_dbase3(dbf)
        data_len == Len(data)
        blocks_needed == at_block_blocks_needed(dbase3, data_len)
        bytes_written == IF dbase3 THEN data_len + 1 ELSE 8 + data_len
        padding == (blocks_needed * DBF_MEMO_BLOCK_SIZE) - bytes_written
        segs == IF dbase3 THEN <<data, <<EOF_MARK>>>>
                ELSE <<pack_u32_le(memo_type), pack_u32_le(data_len), data>>
        body == write_all(memo, block_num * DBF_MEMO_BLOCK_SIZE,
                          IF padding > 0 THEN Append(segs, Zeros(padding)) ELSE segs)
        next_block_bytes == file_read(body, 0, 4)
        current_next == unpack_u32_be(next_block_bytes)
        new_next == block_num + blocks_needed
    IN [memo |-> IF Len(next_block_bytes) = 4 /\ new_next > current_next
                 THEN file_write(body, 0, pack_u32_be(new_next))
                 ELSE body,
        block |-> block_num]

\* index of the first 0x1A in data, or -1 (bytes.find)
find_byte(data, b) ==
    LET hits == {i \in 1..Len(data) : data[i] = b}
    IN IF hits = {} THEN -1
       ELSE (CHOOSE i \in hits : \A j \in hits : i <= j) - 1

dbf_memo_get_info(dbf, memo, start_block) ==
    LET start_pos == start_block * DBF_MEMO_BLOCK_SIZE
        file_size == Len(memo)
    IN IF start_block <= 0 THEN <<0, 0>>
       ELSE IF memo = <<>> THEN <<0, 0>>
       ELSE IF file_size <= start_pos THEN <<0, 0>>
       ELSE IF is_dbase3(dbf)
       THEN LET max_read == Min(file_size - start_pos, 1048576)
                data == file_read(memo, start_pos, max_read)
                terminator_pos == find_byte(data, EOF_MARK)
            IN <<1, IF terminator_pos >= 0 THEN terminator_pos ELSE Len(data)>>
       ELSE LET memo_type_bytes == file_read(memo, start_pos, 4)
                memo_len_bytes == file_read(memo, start_pos + 4, 4)
            IN IF Len(memo_type_bytes) < 4 \/ Len(memo_len_bytes) < 4 THEN <<0, 0>>
               ELSE <<unpack_u32_le(memo_type_bytes), unpack_u32_le(memo_len_bytes)>>

\* a reader that takes the payload from the start of the block in both framings
read_buffer_no_skip(dbf, memo, start_block, buf_size) ==
    LET info == dbf_memo_get_info(dbf, memo, start_block)
    IN IF info[1] = 0 THEN <<0, <<>>>>
       ELSE <<info[1], file_read(memo, start_block * DBF_MEMO_BLOCK_SIZE,
                                 Min(buf_size, info[2]))>>

dbf_memo_read_buffer(dbf, memo, start_block, buf_size) ==
    LET info == dbf_memo_get_info(dbf, memo, start_block)
        read_size == Min(buf_size, info[2])
        start_pos == start_block * DBF_MEMO_BLOCK_SIZE
    IN IF info[1] = 0 THEN <<0, <<>>>>
       ELSE <<info[1], file_read(memo, IF is_dbase3(dbf) THEN start_pos
                                       ELSE start_pos + 8, read_size)>>

\* what a caller resolves block b to: get_info, then read_buffer of that length
memo_resolve(dbf, memo, b) ==
    LET info == dbf_memo_get_info(dbf, memo, b)
        got == dbf_memo_read_buffer(dbf, memo, b, info[2])
    IN [memo_type |-> got[1], length |-> info[2], data |-> got[2]]

----------------------------------------------------------------------------
(* The memo file under a sequence of writes.  An append write is a         *)
(* sequence of f.write calls followed by the update of block 0; it can     *)
(* stop between any two of them.                                           *)

FLD_ID == <<73, 68>>                \* "ID"
FLD_NAME == <<78, 65, 77, 69>>      \* "NAME"
FLD_NOTE == <<78, 79, 84, 69>>      \* "NOTE"

MemoSchemas ==
    { DBFHeader(0, <<DBFColumn(FLD_ID, CH_N, 2, 0), DBFColumn(FLD_NOTE, CH_M, 10, 0)>>),
      DBFHeader(3, <<DBFColumn(FLD_ID, CH_N, 2, 0), DBFColumn(FLD_NOTE, CH_M, 10, 0)>>),
      DBFHeader(0, <<DBFColumn(FLD_ID, CH_N, 2, 0)>>) }

create_table(header) ==
    IF header.version = 3 THEN dbf_file_create_dbase3(header)
    ELSE dbf_file_create(header)

\* the memos handed to the writes: <<memo_type, data>>
MemoInputs ==
    { <<1, <<>>>>, <<2, <<65, 26, 66>>>>, <<1, Fill(503, 67)>>,
      <<2, Fill(511, 68)>>, <<1, Fill(512, 69)>> }

memo_entry(op, block, memo_type, data, memo, next_before, nblocks) ==
    [op |-> op, block |-> block, memo_type |-> memo_type, data |-> data,
     ok |-> memo_resolve(dbfFile, memo, block)
              = [memo_type |-> memo_type, length |-> Len(data), data |-> data],
     next_before |-> next_before, nblocks |-> nblocks]

\* dbf_memo_write_buffer up to line 946: open or create, read next-free, seek
MemoWriteBegin(memo_type, data) ==
    /\ pend = None
    /\ Len(memoLog) < MaxWrites
    /\ dbt' = memo_open_or_create(dbt)
    /\ pend' = [start_block |-> memo_next_free(dbt),
                pos |-> memo_next_free(dbt) * DBF_MEMO_BLOCK_SIZE,
                segs |-> memo_write_segments(is_dbase3(dbfFile), memo_type, data),
                memo_type |-> memo_type, data |-> data,
                before |-> dbt]
    /\ justWrote' = FALSE
    /\ UNCHANGED <<memoLog, nCrash>>
    /\ UNCHANGED tableVars
    /\ UNCHANGED restVars

\* one f.write call of lines 948-978
MemoWriteStep ==
    /\ pend # None
    /\ pend.segs # <<>>
    /\ dbt' = file_write(dbt, pend.pos, Head(pend.segs))
    /\ pend' = [pend EXCEPT !.pos = pend.pos + Len(Head(pend.segs)),
                            !.segs = Tail(pend.segs)]
    /\ UNCHANGED <<memoLog, nCrash, justWrote>>
    /\ UNCHANGED tableVars
    /\ UNCHANGED restVars

\* lines 980-985: update next-free in block 0, return start_block
MemoWriteCommit ==
    /\ pend # None
    /\ pend.segs = <<>>
    /\ LET nblocks == memo_blocks_needed(memo_total_len(is_dbase3(dbfFile), pend.data))
           memo == file_write(dbt, 0, pack_u32_le(pend.start_block + nblocks))
       IN /\ dbt' = memo
          /\ memoLog' = Append(memoLog,
                memo_entry("append", pend.start_block, pend.memo_type, pend.data,
                           memo, pend.start_block, nblocks))
    /\ pend' = None
    /\ justWrote' = TRUE
    /\ UNCHANGED nCrash
    /\ UNCHANGED tableVars
    /\ UNCHANGED restVars

\* the process stops inside an append write; the file keeps what was written
MemoCrash ==
    /\ pend # None
    /\ nCrash < MaxCrashes
    /\ pend' = None
    /\ nCrash' = nCrash + 1
    /\ justWrote' = FALSE
    /\ UNCHANGED <<dbt, memoLog>>
    /\ UNCHANGED tableVars
    /\ UNCHANGED restVars

\* dbf_memo_write_buffer_at_block (open 'r+b' needs an existing file)
MemoWriteAtBlock(memo_type, data, block_num) ==
    /\ pend = None
    /\ Len(memoLog) < MaxWrites
    /\ dbt # <<>>
    /\ LET r == dbf_memo_write_buffer_at_block(dbfFile, dbt, memo_type, data, block_num)
       IN /\ dbt' = r.memo
          /\ memoLog' = Append(memoLog,
                memo_entry("at_block", r.block, memo_type, data, r.memo,
                           memo_next_free(dbt),
                           at_block_blocks_needed(is_dbase3(dbfFile), Len(data))))
    /\ justWrote' = TRUE
    /\ UNCHANGED <<pend, nCrash>>
    /\ UNCHANGED tableVars
    /\ UNCHANGED restVars

InitMemo ==
    /\ \E header \in MemoSchemas :
          LET c == create_table(header)
          IN /\ dbfFile = c.file
             /\ hdr = c.header
             /\ filePos = c.pos
             /\ dbt = c.memo
    /\ nAppended = 0
    /\ lastOp = None
    /\ nOps = 0
    /\ headerHit = FALSE
    /\ prevFile = <<>>
    /\ memoLog = <<>>
    /\ pend = None
    /\ nCrash = 0
    /\ justWrote = FALSE
    /\ outTable = None
    /\ ndxFile = <<>>
    /\ ndxField = 0
    /\ lastFind = None
    /\ ExtraIdle

NextMemo ==
    \/ \E m \in MemoInputs : MemoWriteBegin(m[1], m[2])
    \/ MemoWriteStep
    \/ MemoWriteCommit
    \/ MemoCrash
    \/ \E m \in MemoInputs, b \in 1..MaxAtBlock : MemoWriteAtBlock(m[1], m[2], b)

SpecMemo == InitMemo /\ [][NextMemo]_vars

\* dbf_memo_write_buffer run from its first line to its return
MemoWrite(memo_type, data) ==
    /\ pend = None
    /\ Len(memoLog) < MaxWrites
    /\ LET r == dbf_memo_write_buffer(dbfFile, dbt, memo_type, data)
       IN /\ dbt' = r.memo
          /\ memoLog' = Append(memoLog,
                memo_entry("append", r.block, memo_type, data, r.memo,
                           memo_next_free(dbt),
                           memo_blocks_needed(memo_total_len(is_dbase3(dbfFile), data))))
    /\ justWrote' = TRUE
    /\ UNCHANGED <<pend, nCrash>>
    /\ UNCHANGED tableVars
    /\ UNCHANGED restVars

\* the memo file under completed writes only
NextMemoWrites ==
    \/ \E m \in MemoInputs : MemoWrite(m[1], m[2])
    \/ \E m \in MemoInputs, b \in 1..MaxAtBlock : MemoWriteAtBlock(m[1], m[2], b)

SpecMemoWrites == InitMemo /\ [][NextMemoWrites]_vars

----------------------------------------------------------------------------
(* Properties of the memo codec *)

LastWrite == memoLog[Len(memoLog)]

\* the u32 little-endian value at offset 0 of block 0
NextFreeLE(memo) == unpack_u32_le(file_read(memo, 0, 4))

Resolves(memo, e) ==
    memo_resolve(dbfFile, memo, e.block)
        = [memo_type |-> e.memo_type, length |-> Len(e.data), data |-> e.data]

CeilDiv(t, d) == IF t % d = 0 THEN t \div d ELSE t \div d + 1

\* t_j of a logged write: payload length plus the framing overhead
FramedLen(e) == IF is_dbase3(dbfFile) THEN Len(e.data) + 1 ELSE Len(e.data) + 9

RECURSIVE BlocksBefore(_)
BlocksBefore(i) ==
    IF i <= 1 THEN 0
    ELSE BlocksBefore(i - 1) + CeilDiv(FramedLen(memoLog[i - 1]), 512)

OnlyAppends(i) == \A j \in 1..i : memoLog[j].op = "append"

RECURSIVE HighWater(_)
\* the first block after every memo written before the i-th write
HighWater(i) ==
    IF i <= 1 THEN 1
    ELSE Max(HighWater(i - 1), memoLog[i - 1].block + memoLog[i - 1].nblocks)

\* C1: after any sequence of completed append writes and write-at-block
\* writes that target blocks at or beyond the next-free block (and beyond
\* every memo written so far), every memo that read back as written still
\* reads back as written.
C1_NoMemoOverwritten ==
    (\A i \in 1..Len(memoLog) :
        memoLog[i].op = "at_block"
        => /\ memoLog[i].block >= memoLog[i].next_before
           /\ memoLog[i].block >= HighWater(i))
    => \A i \in 1..Len(memoLog) : memoLog[i].ok => Resolves(dbt, memoLog[i])

\* C2: a write-at-block leaves the little-endian next-free pointer alone
\* when the written memo ends at or before it and otherwise sets it to
\* block + blocks_needed.
C2_AtBlockNextFree ==
    (justWrote /\ LastWrite.op = "at_block")
    => NextFreeLE(dbt) =
          IF LastWrite.block + LastWrite.nblocks <= LastWrite.next_before
          THEN LastWrite.next_before
          ELSE LastWrite.block + LastWrite.nblocks

\* C3: from a fresh memo file, the i-th of a sequence of append writes
\* starts at block 1 + sum over j < i of ceil(t_j / 512), and right after
\* it the next-free pointer is its start block + ceil(t_i / 512).
C3_AppendBlockAdvance ==
    /\ \A i \in 1..Len(memoLog) :
          OnlyAppends(i) => memoLog[i].block = 1 + BlocksBefore(i)
    /\ (justWrote /\ OnlyAppends(Len(memoLog)))
       => NextFreeLE(dbt) = LastWrite.block + CeilDiv(FramedLen(LastWrite), 512)

\* two appends, the first of which fills its block exactly
C3_Witness ==
    /\ justWrote
    /\ Len(memoLog) = 2
    /\ OnlyAppends(2)
    /\ FramedLen(memoLog[1]) = 512
    /\ memoLog[2].block = 2
    /\ NextFreeLE(dbt) = 4

\* C4 as stated: right after a write of payload p of length n, get_info
\* reports n and read_buffer returns p, in both framings.
C4_WriteThenRead ==
    justWrote
    => LET r == memo_resolve(dbfFile, dbt, LastWrite.block)
       IN r.length = Len(LastWrite.data) /\ r.data = LastWrite.data

\* C4 amended: as stated for dBase IV+ framing and for dBase III payloads
\* without a 0x1A byte; a dBase III payload with a 0x1A byte reads back cut
\* at its first 0x1A.
C4_WriteThenReadAmended ==
    justWrote
    => LET r == memo_resolve(dbfFile, dbt, LastWrite.block)
           p == LastWrite.data
           cut == find_byte(p, EOF_MARK)
       IN IF is_dbase3(dbfFile) /\ cut >= 0
          THEN r.length = cut /\ r.data = SubSeq(p, 1, cut)
          ELSE r.length = Len(p) /\ r.data = p

\* an append of a payload of 503 bytes or more, stored behind an earlier
\* memo, reads back as written
C4_Witness ==
    /\ justWrote
    /\ LastWrite.op = "append"
    /\ Len(LastWrite.data) >= 503
    /\ LastWrite.block >= 2
    /\ Resolves(dbt, LastWrite)

\* C5: while an append write is in progress the next-free pointer has the
\* value it had when the write began and every memo written earlier reads
\* back as it did when the write began.
C5_PendingAppendHarmless ==
    pend # None
    => /\ NextFreeLE(dbt) = NextFreeLE(memo_open_or_create(pend.before))
       /\ \A i \in 1..Len(memoLog) :
             memo_resolve(dbfFile, dbt, memoLog[i].block)
                = memo_resolve(dbfFile, pend.before, memoLog[i].block)

----------------------------------------------------------------------------
(* Table codec: rows of an open DBFFile handle *)

pad_value(value, length) ==
    IF Len(value) > length THEN SubSeq(value, 1, length)
    ELSE value \o Fill(length - Len(value), SP)

\* values[i] if i < len(values) else ''  (values[0] of the source is unused)
value_at(values, i) == IF i <= Len(values) THEN values[i] ELSE <<>>

RECURSIVE row_fields(_, _, _)
row_fields(header, values, n) ==
    IF n = 0 THEN <<>>
    ELSE row_fields(header, values, n - 1)
         \o pad_value(value_at(values, n), header.fields[n].length)

\* the row buffer of dbf_file_append_row and dbf_file_write_row
row_buffer(header, values) ==
    <<SP>> \o row_fields(header, values, header.field_count)

\* dbf_file_append_row, lines 342-348: where the new row is written
append_pos(file) == IF Len(file) > 0 THEN Len(file) - 1 ELSE Len(file)

append_count_stale(header) == header.record_count

\* dbf_file_append_row, line 379
append_count(header) == header.record_count + 1

dbf_file_append_row(file, header, values) ==
    LET pos == append_pos(file)
        buf == row_buffer(header, values)
        f1 == file_write(file, pos, buf)
        h == [header EXCEPT !.record_count = append_count(header)]
        f2 == file_write(f1, 4, pack_u32_le(h.record_count))
        f3 == file_write(f2, pos + Len(buf), <<EOF_MARK>>)
    IN [file |-> f3, header |-> h, pos |-> pos + Len(buf) + 1]

\* dbf_file_seek_to_row
row_position(header, row_index) ==
    header.header_size + (row_index * header.record_size)

\* dbf_file_read_row: [] on a short read, else the flag and the field slices
\* (decode('utf-8') of line 427 leaves the bytes below 0x80 of these rows as
\* the characters of the same code)
dbf_file_read_row(file, header, pos) ==
    LET row_data == file_read(file, pos, header.record_size)
    IN IF Len(row_data) < header.record_size
       THEN [row |-> <<>>, pos |-> pos + Len(row_data)]
       ELSE [row |-> <<<<row_data[1]>>>> \o
                     [i \in 1..header.field_count |->
                        SubSeq(row_data, header.fields[i].offset + 1,
                               header.fields[i].offset + header.fields[i].length)],
             pos |-> pos + Len(row_data)]

\* dbf_file_set_row_deleted
dbf_file_set_row_deleted(file, header, row_index, deleted) ==
    LET pos == row_position(header, row_index)
    IN [file |-> file_write(file, pos, <<IF deleted THEN STAR ELSE SP>>),
        pos |-> pos + 1]

\* dbf_file_write_row
dbf_file_write_row(file, header, pos, values) ==
    LET buf == row_buffer(header, values)
    IN [file |-> file_write(file, pos, buf), pos |-> pos + Len(buf)]

----------------------------------------------------------------------------
(* Opening a table: read_dbf_header, dbf_file_open *)

DBF_MAX_FIELDS == 64

\* a reader that keeps the NUL padding of the name
field_name_padded(field_buf, j) == SubSeq(field_buf, 1, j)

\* the characters of the first 11 descriptor bytes that are not NUL
RECURSIVE field_name_of(_, _)
field_name_of(field_buf, j) ==
    IF j = 0 THEN <<>>
    ELSE field_name_of(field_buf, j - 1)
         \o (IF field_buf[j] # 0 THEN <<field_buf[j]>> ELSE <<>>)

\* one DBFColumn from the 32 bytes of a descriptor, lines 93-104
read_field(field_buf) ==
    [name |-> field_name_of(field_buf, 11),
     field_type |-> field_buf[12],
     length |-> field_buf[17],
     decimals |-> field_buf[18],
     offset |-> 0]

\* what one pass of the descriptor loop meets at pos, lines 78-91:
\* the field limit, the end of the file, the terminator, a short
\* descriptor, or a descriptor to read
descriptor_step(file, pos, i) ==
    IF i >= DBF_MAX_FIELDS THEN "limit"
    ELSE IF file_read(file, pos, 1) = <<>> THEN "eof"
    ELSE IF file_read(file, pos, 1)[1] = HDR_TERM THEN "terminator"
    ELSE IF Len(file_read(file, pos, 32)) < 18 THEN "short"
    ELSE "field"

\* the descriptor loop of read_dbf_header, lines 78-106
RECURSIVE read_field_descriptors(_, _, _, _)
read_field_descriptors(file, pos, i, fields) ==
    IF descriptor_step(file, pos, i) = "field"
    THEN read_field_descriptors(file, pos + Len(file_read(file, pos, 32)), i + 1,
                                Append(fields, read_field(file_read(file, pos, 32))))
    ELSE [ok |-> descriptor_step(file, pos, i) # "short",
          fields |-> fields,
          pos |-> IF descriptor_step(file, pos, i) = "terminator" THEN pos + 1 ELSE pos]

read_dbf_header(file) ==
    LET buf == file_read(file, 0, 32)
    IN IF Len(buf) < 30 THEN [ok |-> FALSE]
       ELSE LET d == read_field_descriptors(file, Len(buf), 0, <<>>)
            IN IF ~d.ok THEN [ok |-> FALSE]
               ELSE [ok |-> TRUE,
                     pos |-> d.pos,
                     header |->
                        [version |-> buf[1], year |-> buf[2], month |-> buf[3],
                         day |-> buf[4],
                         record_count |-> unpack_u32_le(SubSeq(buf, 5, 8)),
                         header_size |-> unpack_u16_le(SubSeq(buf, 9, 10)),
                         record_size |-> 1 + SumLen(d.fields, Len(d.fields)),
                         table_flags |-> buf[29], language_driver |-> buf[30],
                         fields |-> with_offsets(d.fields),
                         field_count |-> Len(d.fields)]]

\* dbf_file_open: an open handle, or an IOError (ok = FALSE)
dbf_file_open(file) ==
    IF file = <<>> THEN [ok |-> FALSE] ELSE read_dbf_header(file)

----------------------------------------------------------------------------
(* An open table handle under row operations *)

MaxOps == 3         \* operations on one table handle

TableSchemas ==
    { DBFHeader(0, <<DBFColumn(FLD_ID, CH_N, 2, 0), DBFColumn(FLD_NAME, CH_C, 3, 0)>>),
      DBFHeader(3, <<DBFColumn(FLD_ID, CH_N, 2, 0), DBFColumn(FLD_NAME, CH_C, 3, 0)>>) }

\* value lists: empty, shorter than the field list, exact, over-long
TableValues ==
    { <<>>, <<<<55>>>>, <<<<49, 50>>, <<65, 66>>>>, <<<<51, 52, 53>>, <<87, 88, 89, 90>>>> }

ForeignValues == <<<<57, 57>>, <<90, 90, 90>>>>

\* a table file as another dBase writer leaves it: header, n rows, and the
\* end-of-file marker only if with_marker
foreign_table(header, values, n, with_marker) ==
    LET h == [init_dbf_header(header) EXCEPT !.record_count = n]
        head == write_dbf_header(h)
        rows == IF n = 0 THEN <<>> ELSE row_buffer(h, values)
    IN SubSeq(head, 1, Len(head) - 1) \o rows
       \o (IF with_marker THEN <<EOF_MARK>> ELSE <<>>)

table_op(op, values, row_index, pos) ==
    [op |-> op, values |-> values, row_index |-> row_index, pos |-> pos,
     count |-> hdr.record_count]

TblAppendRow(values) ==
    /\ nOps < MaxOps
    /\ LET r == dbf_file_append_row(dbfFile, hdr, values)
       IN /\ dbfFile' = r.file
          /\ hdr' = r.header
          /\ filePos' = r.pos
    /\ nAppended' = nAppended + 1
    /\ lastOp' = table_op("append", values, hdr.record_count, append_pos(dbfFile))
    /\ prevFile' = dbfFile
    /\ nOps' = nOps + 1
    /\ UNCHANGED headerHit
    /\ UNCHANGED memoVars
    /\ UNCHANGED restVars

TblSeekToRow(row_index) ==
    /\ nOps < MaxOps
    /\ filePos' = row_position(hdr, row_index)
    /\ lastOp' = table_op("seek", <<>>, row_index, filePos)
    /\ prevFile' = dbfFile
    /\ nOps' = nOps + 1
    /\ UNCHANGED <<dbfFile, hdr, nAppended, headerHit>>
    /\ UNCHANGED memoVars
    /\ UNCHANGED restVars

TblReadRow ==
    /\ nOps < MaxOps
    /\ filePos' = dbf_file_read_row(dbfFile, hdr, filePos).pos
    /\ lastOp' = table_op("read", <<>>, 0, filePos)
    /\ prevFile' = dbfFile
    /\ nOps' = nOps + 1
    /\ UNCHANGED <<dbfFile, hdr, nAppended, headerHit>>
    /\ UNCHANGED memoVars
    /\ UNCHANGED restVars

TblWriteRow(values) ==
    /\ nOps < MaxOps
    /\ LET r == dbf_file_write_row(dbfFile, hdr, filePos, values)
       IN /\ dbfFile' = r.file
          /\ filePos' = r.pos
    /\ lastOp' = table_op("write", values, 0, filePos)
    /\ prevFile' = dbfFile
    /\ nOps' = nOps + 1
    /\ headerHit' = (headerHit \/ filePos < hdr.header_size)
    /\ UNCHANGED <<hdr, nAppended>>
    /\ UNCHANGED memoVars
    /\ UNCHANGED restVars

TblSetRowDeleted(row_index, deleted) ==
    /\ nOps < MaxOps
    /\ LET r == dbf_file_set_row_deleted(dbfFile, hdr, row_index, deleted)
       IN /\ dbfFile' = r.file
          /\ filePos' = r.pos
    /\ lastOp' = table_op("delete", <<>>, row_index, filePos)
    /\ prevFile' = dbfFile
    /\ nOps' = nOps + 1
    /\ UNCHANGED <<hdr, nAppended, headerHit>>
    /\ UNCHANGED memoVars
    /\ UNCHANGED restVars

MemoIdle ==
    /\ dbt = <<>>
    /\ memoLog = <<>>
    /\ pend = None
    /\ nCrash = 0
    /\ justWrote = FALSE

\* a handle fresh from dbf_file_create / dbf_file_create_dbase3, or from
\* dbf_file_open of an existing table with or without the end-of-file marker
InitTable ==
    /\ \/ \E header \in TableSchemas :
             LET c == create_table(header)
             IN /\ dbfFile = c.file
                /\ hdr = c.header
                /\ filePos = c.pos
       \/ \E header \in TableSchemas, n \in 0..1, with_marker \in BOOLEAN :
             LET image == foreign_table(header, ForeignValues, n, with_marker)
                 o == dbf_file_open(image)
             IN /\ dbfFile = image
                /\ hdr = o.header
                /\ filePos = o.pos
    /\ nAppended = hdr.record_count
    /\ lastOp = None
    /\ nOps = 0
    /\ headerHit = FALSE
    /\ prevFile = dbfFile
    /\ MemoIdle
    /\ outTable = None
    /\ ndxFile = <<>>
    /\ ndxField = 0
    /\ lastFind = None
    /\ ExtraIdle

NextTable ==
    \/ \E values \in TableValues : TblAppendRow(values)
    \/ \E row_index \in 0..hdr.record_count : TblSeekToRow(row_index)
    \/ TblReadRow
    \/ \E values \in TableValues : TblWriteRow(values)
    \/ \E row_index \in 0..hdr.record_count, deleted \in BOOLEAN :
          TblSetRowDeleted(row_index, deleted)

SpecTable == InitTable /\ [][NextTable]_vars

----------------------------------------------------------------------------
(* Properties of the row operations *)

\* the u32 little-endian record count at file offset 4
CountInFile(file) == unpack_u32_le(SubSeq(file, 5, 8))

\* the row a caller expects to read back after storing values
PaddedRow(header, values) ==
    <<<<SP>>>> \o [i \in 1..header.field_count |->
                    pad_value(value_at(values, i), header.fields[i].length)]

RowAt(file, header, row_index) ==
    dbf_file_read_row(file, header, row_position(header, row_index)).row

\* the file is the header, c rows and at most the end-of-file marker
WellFormed(file, header, c) ==
    \/ Len(file) = row_position(header, c)
    \/ Len(file) = row_position(header, c) + 1 /\ file[Len(file)] = EOF_MARK

JustDid(op) == lastOp # None /\ lastOp.op = op

\* C7: an append on a table of c rows stores the padded record as row c with
\* a ' ' delete flag, makes the record count c + 1 in the cached header and
\* at file offset 4, and leaves 0x1A as the last byte of the file.
C7_AppendStoresRow ==
    (JustDid("append") /\ WellFormed(prevFile, hdr, lastOp.count))
    => /\ RowAt(dbfFile, hdr, lastOp.count) = PaddedRow(hdr, lastOp.values)
       /\ hdr.record_count = lastOp.count + 1
       /\ CountInFile(dbfFile) = lastOp.count + 1
       /\ dbfFile[Len(dbfFile)] = EOF_MARK
       /\ Len(dbfFile) = row_position(hdr, lastOp.count + 1) + 1

\* C8: an append on a file that does not end with the end-of-file marker
\* changes no byte of the records already stored.
C8_AppendKeepsRecords ==
    (JustDid("append") /\ prevFile[Len(prevFile)] # EOF_MARK)
    => \A i \in (hdr.header_size + 1)..row_position(hdr, lastOp.count) :
          i <= Len(prevFile) => dbfFile[i] = prevFile[i]

\* C9 as stated: after every operation the cached record count and the u32
\* at file offset 4 agree and equal the number of rows appended.
C9_RecordCount ==
    /\ hdr.record_count = nAppended
    /\ CountInFile(dbfFile) = nAppended

\* C9 amended: the same, as long as no write-row was issued while the file
\* position was inside the header.
C9_RecordCountAmended ==
    ~headerHit => /\ hdr.record_count = nAppended
                  /\ CountInFile(dbfFile) = nAppended

\* a row rewritten in place and a row tombstoned after an append
C9_Witness ==
    /\ ~headerHit
    /\ nAppended >= 1
    /\ \/ JustDid("write") /\ lastOp.pos = row_position(hdr, 0)
       \/ JustDid("delete") /\ lastOp.row_index = 0
    /\ dbfFile # prevFile
    /\ CountInFile(dbfFile) = nAppended

----------------------------------------------------------------------------
(* Text helpers of the import, export and compaction code *)

WHITESPACE == {9, 10, 11, 12, 13, 28, 29, 30, 31, 32}

RECURSIVE lstrip(_)
lstrip(text) ==
    IF text # <<>> /\ Head(text) \in WHITESPACE THEN lstrip(Tail(text)) ELSE text

RECURSIVE rstrip(_)
rstrip(text) ==
    IF text # <<>> /\ text[Len(text)] \in WHITESPACE
    THEN rstrip(SubSeq(text, 1, Len(text) - 1)) ELSE text

\* str.strip()
strip(text) == rstrip(lstrip(text))

is_digits(text) == text # <<>> /\ \A i \in 1..Len(text) : text[i] \in 48..57

\* int(text) of a string of decimal digits
RECURSIVE parse_digits(_)
parse_digits(text) ==
    IF text = <<>> THEN 0
    ELSE 10 * parse_digits(SubSeq(text, 1, Len(text) - 1)) + (text[Len(text)] - 48)

\* str(n) of a non-negative integer
RECURSIVE int_to_str(_)
int_to_str(n) ==
    IF n < 10 THEN <<48 + n>> ELSE int_to_str(n \div 10) \o <<48 + (n % 10)>>

\* bytes.decode('latin-1'): every byte is the character of the same code
latin1_decode(data) == data

\* str.encode('utf-8') of characters below U+0800
RECURSIVE utf8_encode(_)
utf8_encode(text) ==
    IF Len(text) = 0 THEN <<>>
    ELSE IF Len(text) = 1
    THEN (IF text[1] < 128 THEN <<text[1]>>
          ELSE <<192 + (text[1] \div 64), 128 + (text[1] % 64)>>)
    ELSE utf8_encode(SubSeq(text, 1, Len(text) \div 2))
         \o utf8_encode(SubSeq(text, (Len(text) \div 2) + 1, Len(text)))

\* dbf_memo_write: the text is stored in its UTF-8 encoding
dbf_memo_write(dbf, memo, memo_type, text) ==
    dbf_memo_write_buffer(dbf, memo, memo_type, utf8_encode(text))

----------------------------------------------------------------------------
(* compact_dbf *)

\* lines 1503-1535: the output values of one input row, field by field;
\* acc carries the values so far, the output memo file and a failure flag
RECURSIVE compact_fields(_, _, _, _, _, _)
compact_fields(in_dbf, in_dbt, out_dbf, header, row, acc) ==
    LET field_idx == Len(acc.values) + 1
    IN IF field_idx > header.field_count \/ ~acc.ok THEN acc
       ELSE LET field == header.fields[field_idx]
                text == strip(row[field_idx + 1])
            IN IF upper(field.field_type) # CH_M
               THEN compact_fields(in_dbf, in_dbt, out_dbf, header, row,
                        [acc EXCEPT !.values = Append(acc.values, text)])
               ELSE IF text = <<>> \/ text = <<CH_0>>
               THEN compact_fields(in_dbf, in_dbt, out_dbf, header, row,
                        [acc EXCEPT !.values = Append(acc.values, <<CH_0>>)])
               ELSE IF ~is_digits(text) THEN [acc EXCEPT !.ok = FALSE]
               ELSE LET old_block == parse_digits(text)
                        info == dbf_memo_get_info(in_dbf, in_dbt, old_block)
                        memo_data == dbf_memo_read_buffer(in_dbf, in_dbt, old_block, info[2])[2]
                        w == IF info[1] = 1
                             THEN dbf_memo_write(out_dbf, acc.memo, info[1],
                                                 latin1_decode(memo_data))
                             ELSE dbf_memo_write_buffer(out_dbf, acc.memo, info[1],
                                                        memo_data)
                    IN IF old_block > 0 /\ info[1] > 0
                       THEN compact_fields(in_dbf, in_dbt, out_dbf, header, row,
                                [acc EXCEPT !.values = Append(acc.values, int_to_str(w.block)),
                                            !.memo = w.memo])
                       ELSE compact_fields(in_dbf, in_dbt, out_dbf, header, row,
                                [acc EXCEPT !.values = Append(acc.values, <<CH_0>>)])

\* lines 1490-1538: the loop over the input rows; out carries the output
\* table file, its cached header and the output memo file
RECURSIVE compact_rows(_, _, _, _, _)
compact_rows(in_dbf, in_dbt, in_header, row_idx, out) ==
    IF row_idx >= in_header.record_count \/ ~out.ok THEN out
    ELSE LET row == RowAt(in_dbf, in_header, row_idx)
         IN IF row = <<>> THEN [out EXCEPT !.ok = FALSE]
            ELSE IF row[1] = <<STAR>>
            THEN compact_rows(in_dbf, in_dbt, in_header, row_idx + 1, out)
            ELSE LET f == compact_fields(in_dbf, in_dbt, out.file, in_header, row,
                                         [values |-> <<>>, memo |-> out.memo, ok |-> TRUE])
                     a == dbf_file_append_row(out.file, out.header, f.values)
                 IN compact_rows(in_dbf, in_dbt, in_header, row_idx + 1,
                        [file |-> a.file, header |-> a.header, memo |-> f.memo,
                         ok |-> f.ok])

\* compact_dbf: the output table file and memo file (ok = FALSE: it raised)
compact_dbf(in_dbf, in_dbt) ==
    LET o == dbf_file_open(in_dbf)
    IN IF ~o.ok THEN [ok |-> FALSE]
       ELSE LET out_header == [o.header EXCEPT !.record_count = 0]
                c == IF has_memo_field(out_header) THEN dbf_file_create(out_header)
                     ELSE dbf_file_create_dbase3(out_header)
            IN compact_rows(in_dbf, in_dbt, o.header, 0,
                    [file |-> c.file, header |-> c.header, memo |-> c.memo,
                     ok |-> TRUE])

----------------------------------------------------------------------------
(* A table with memos that an application fills, tombstones and compacts *)

MaxRows == 2        \* rows of the table that is compacted

CompactSchemas ==
    { DBFHeader(0, <<DBFColumn(FLD_ID, CH_N, 2, 0), DBFColumn(FLD_NAME, CH_C, 3, 0),
                     DBFColumn(FLD_NOTE, CH_M, 10, 0)>>),
      DBFHeader(3, <<DBFColumn(FLD_ID, CH_N, 2, 0), DBFColumn(FLD_NAME, CH_C, 3, 0),
                     DBFColumn(FLD_NOTE, CH_M, 10, 0)>>),
      DBFHeader(0, <<DBFColumn(FLD_ID, CH_N, 2, 0), DBFColumn(FLD_NAME, CH_C, 3, 0)>>) }

\* the rows the application adds, <<values, memo_type, payload>>: ID and
\* NAME left-aligned or right-aligned as dBase writes numbers; no memo
\* (type 0), the texts "Hi" and U+00E9, a binary memo that needs two blocks
CompactRows ==
    { <<<<<<49>>, <<65, 66>>>>, 1, <<72, 105>>>>,
      <<<<<<32, 55>>, <<67>>>>, 1, <<233>>>>,
      <<<<<<50>>, <<68>>>>, 2, Fill(504, 68)>>,
      <<<<<<32, 56>>, <<69, 70>>>>, 0, <<>>>> }

\* the application stores the memo (text through dbf_memo_write, binary
\* through dbf_memo_write_buffer) and appends the row with its block number
CmpAppendRow(values, memo_type, data) ==
    /\ outTable = None
    /\ hdr.record_count < MaxRows
    /\ LET has_memo == has_memo_field(hdr) /\ memo_type # 0
           w == IF ~has_memo THEN [memo |-> dbt, block |-> 0]
                ELSE IF memo_type = 1 THEN dbf_memo_write(dbfFile, dbt, memo_type, data)
                ELSE dbf_memo_write_buffer(dbfFile, dbt, memo_type, data)
           vals == IF has_memo_field(hdr) THEN Append(values, int_to_str(w.block))
                   ELSE values
           r == dbf_file_append_row(dbfFile, hdr, vals)
       IN /\ dbt' = w.memo
          /\ dbfFile' = r.file
          /\ hdr' = r.header
          /\ filePos' = r.pos
    /\ nAppended' = nAppended + 1
    /\ UNCHANGED <<lastOp, prevFile, nOps, headerHit, memoLog, pend, nCrash, justWrote>>
    /\ UNCHANGED restVars

CmpSetRowDeleted(row_index, deleted) ==
    /\ outTable = None
    /\ LET r == dbf_file_set_row_deleted(dbfFile, hdr, row_index, deleted)
       IN /\ dbfFile' = r.file
          /\ filePos' = r.pos
    /\ UNCHANGED <<hdr, nAppended, lastOp, prevFile, nOps, headerHit>>
    /\ UNCHANGED memoVars
    /\ UNCHANGED restVars

CmpCompact ==
    /\ outTable = None
    /\ outTable' = compact_dbf(dbfFile, dbt)
    /\ UNCHANGED <<ndxFile, ndxField, lastFind>>
    /\ UNCHANGED extraVars
    /\ UNCHANGED tableVars
    /\ UNCHANGED memoVars

InitCompact ==
    /\ \E header \in CompactSchemas :
          LET c == create_table(header)
          IN /\ dbfFile = c.file
             /\ hdr = c.header
             /\ filePos = c.pos
             /\ dbt = c.memo
    /\ nAppended = 0
    /\ lastOp = None
    /\ nOps = 0
    /\ headerHit = FALSE
    /\ prevFile = dbfFile
    /\ memoLog = <<>>
    /\ pend = None
    /\ nCrash = 0
    /\ justWrote = FALSE
    /\ outTable = None
    /\ ndxFile = <<>>
    /\ ndxField = 0
    /\ lastFind = None
    /\ ExtraIdle

NextCompact ==
    \/ \E row \in CompactRows : CmpAppendRow(row[1], row[2], row[3])
    \/ \E row_index \in 0..(hdr.record_count - 1), deleted \in BOOLEAN :
          CmpSetRowDeleted(row_index, deleted)
    \/ CmpCompact

SpecCompact == InitCompact /\ [][NextCompact]_vars

----------------------------------------------------------------------------
(* Properties of compaction *)

\* the rows among the first n that are not tombstoned, as read
RECURSIVE live_rows(_, _, _)
live_rows(file, header, n) ==
    IF n = 0 THEN <<>>
    ELSE LET row == RowAt(file, header, n - 1)
         IN live_rows(file, header, n - 1)
            \o (IF row[1] = <<STAR>> THEN <<>> ELSE <<row>>)

\* what field i of a row stands for: its trimmed text, or the payload its
\* memo pointer resolves to
field_meaning(dbf, memo, header, row, i) ==
    LET text == strip(row[i + 1])
    IN IF upper(header.fields[i].field_type) # CH_M
       THEN [memo |-> FALSE, data |-> text]
       ELSE IF ~is_digits(text) \/ parse_digits(text) = 0
       THEN [memo |-> FALSE, data |-> <<>>]
       ELSE [memo |-> TRUE,
             data |-> memo_resolve(dbf, memo, parse_digits(text)).data]

row_meaning(dbf, memo, header, row) ==
    [i \in 1..header.field_count |-> field_meaning(dbf, memo, header, row, i)]

\* C10: the compacted table holds exactly the live rows of the input, in
\* order, none tombstoned, with the same field values; its record count is
\* the live count; every memo pointer resolves to the payload it resolved to
\* in the input.
C10_CompactPreserves ==
    outTable # None
    => /\ outTable.ok
       /\ LET live == live_rows(dbfFile, hdr, hdr.record_count)
              o == dbf_file_open(outTable.file)
          IN /\ o.ok
             /\ o.header.record_count = Len(live)
             /\ outTable.header.record_count = Len(live)
             /\ \A k \in 1..Len(live) :
                   LET row == RowAt(outTable.file, o.header, k - 1)
                   IN /\ row # <<>>
                      /\ row[1] = <<SP>>
                      /\ row_meaning(outTable.file, outTable.memo, o.header, row)
                            = row_meaning(dbfFile, dbt, hdr, live[k])

----------------------------------------------------------------------------
(* NDX index files: header and nodes *)

NDX_BLOCK_SIZE == 512
NDX_MAX_KEYS == 64
NDX_MAX_KEY_LEN == 80

\* the least element of a set of integers, or dflt when it is empty
first_in(S, dflt) == IF S = {} THEN dflt ELSE CHOOSE i \in S : \A j \in S : i <= j

_get_word_le(buf, pos) == unpack_u16_le(SubSeq(buf, pos + 1, pos + 2))
_get_long_le(buf, pos) == unpack_u32_le(SubSeq(buf, pos + 1, pos + 4))

_valid_layout(key_len, keys_max, group_len) ==
    /\ ~(key_len <= 0 \/ key_len > 255)
    /\ ~(keys_max <= 0 \/ keys_max > 255)
    /\ ~(group_len < key_len + 8)
    /\ ~((4 + (keys_max * group_len) + 4) > NDX_BLOCK_SIZE)

\* the expression loop of ndx_read_header, lines 136-143
RECURSIVE header_expr(_, _, _)
header_expr(buf, i, expr_bytes) ==
    IF i < NDX_BLOCK_SIZE /\ Len(expr_bytes) < 80 /\ buf[i + 1] # 0
    THEN header_expr(buf, i + 1, Append(expr_bytes, buf[i + 1]))
    ELSE expr_bytes

\* ndx_read_header: an NDXHeader, or None (ok = FALSE)
ndx_read_header(file) ==
    LET buf == file_read(file, 0, NDX_BLOCK_SIZE)
    IN IF Len(buf) < NDX_BLOCK_SIZE THEN [ok |-> FALSE]
       ELSE LET v1_key_len == _get_word_le(buf, 6)
                v1_keys_max == _get_word_le(buf, 8)
                v1_group_len == _get_word_le(buf, 10)
                v1_ok == _valid_layout(v1_key_len, v1_keys_max, v1_group_len)
                v2_key_len == _get_word_le(buf, 12)
                v2_keys_max == _get_word_le(buf, 14)
                v2_group_len == _get_word_le(buf, 18)
                v2_ok == _valid_layout(v2_key_len, v2_keys_max, v2_group_len)
            IN IF v2_ok /\ ~v1_ok
               THEN [ok |-> TRUE,
                     root_block |-> _get_long_le(buf, 0),
                     eof_block |-> _get_long_le(buf, 4),
                     key_len |-> v2_key_len, keys_max |-> v2_keys_max,
                     group_len |-> v2_group_len,
                     expr |-> header_expr(buf, 24, <<>>)]
               ELSE IF v1_ok
               THEN [ok |-> TRUE,
                     root_block |-> _get_word_le(buf, 0),
                     eof_block |-> _get_word_le(buf, 4),
                     key_len |-> v1_key_len, keys_max |-> v1_keys_max,
                     group_len |-> v1_group_len,
                     expr |-> header_expr(buf, 16, <<>>)]
               ELSE [ok |-> FALSE]

\* the keys, child pointers or record numbers of a node buffer, as a list
RECURSIVE node_column(_, _, _, _, _)
node_column(buf, header, num_keys, at, width) ==
    IF num_keys = 0 THEN <<>>
    ELSE LET offs == 4 + ((num_keys - 1) * header.group_len)
         IN Append(node_column(buf, header, num_keys - 1, at, width),
                   IF width = 0 THEN _get_long_le(buf, offs + at)
                   ELSE SubSeq(buf, offs + at + 1, offs + at + width))

\* ndx_read_node: an NDXNode, or None (ok = FALSE)
ndx_read_node(file, block, header) ==
    LET buf == file_read(file, block * NDX_BLOCK_SIZE, NDX_BLOCK_SIZE)
    IN IF Len(buf) < NDX_BLOCK_SIZE THEN [ok |-> FALSE]
       ELSE LET num_keys == Min(_get_word_le(buf, 0), header.keys_max)
            IN [ok |-> TRUE,
                num_keys |-> num_keys,
                childs |-> node_column(buf, header, num_keys, 0, 0),
                recnos |-> node_column(buf, header, num_keys, 4, 0),
                keys |-> node_column(buf, header, num_keys, 8, header.key_len),
                last_child |-> _get_long_le(buf, 4 + (num_keys * header.group_len))]

ndx_is_leaf_node(node) == \A i \in 1..Len(node.childs) : node.childs[i] = 0

----------------------------------------------------------------------------
(* NDX search: character keys *)

_normalize_key(key, key_len) ==
    LET cut == IF Len(key) > key_len THEN SubSeq(key, 1, key_len) ELSE key
        spaced == [i \in 1..Len(cut) |-> IF cut[i] = 0 THEN SP ELSE cut[i]]
    IN spaced \o Fill(key_len - Len(cut), SP)

_compare_keys(a, b, key_len) ==
    LET a_norm == _normalize_key(a, key_len)
        b_norm == _normalize_key(b, key_len)
        i == first_in({j \in 1..key_len : a_norm[j] # b_norm[j]}, 0)
    IN IF i = 0 THEN 0 ELSE IF a_norm[i] < b_norm[i] THEN -1 ELSE 1

\* a descent that goes one level further down
descent_continues_deeper(block, depth) == block > 0 /\ depth < 21

\* the loop condition of the three descents, lines 339, 383 and 667
descent_continues(block, depth) == block > 0 /\ depth < 20

\* the cursor of a search: stack, stack_idx and depth
push(cur, block, idx) ==
    [stack |-> Append(cur.stack, block), stack_idx |-> Append(cur.stack_idx, idx),
     depth |-> cur.depth + 1]

\* the loop of _descend_to_first_ge, lines 339-368, from block with cursor cur
RECURSIVE descend_from(_, _, _, _, _)
descend_from(file, header, key_norm, block, cur) ==
    IF ~descent_continues(block, cur.depth) THEN cur
    ELSE LET node == ndx_read_node(file, block, header)
         IN IF ~node.ok THEN cur
            ELSE IF ndx_is_leaf_node(node)
            THEN push(cur, block,
                      first_in({i \in 0..(node.num_keys - 1) :
                                  ~(_compare_keys(node.keys[i + 1], key_norm,
                                                  header.key_len) < 0)},
                               node.num_keys))
            ELSE LET next_idx ==
                         first_in({i \in 0..(node.num_keys - 1) :
                                     _compare_keys(key_norm, node.keys[i + 1],
                                                   header.key_len) <= 0},
                                  node.num_keys)
                     next_block == IF next_idx < node.num_keys
                                   THEN node.childs[next_idx + 1]
                                   ELSE node.last_child
                 IN descend_from(file, header, key_norm, next_block,
                                 push(cur, block, next_idx))

_descend_to_first_ge(file, header, key_norm) ==
    descend_from(file, header, key_norm, header.root_block,
                 [stack |-> <<>>, stack_idx |-> <<>>, depth |-> 0])

RECURSIVE _descend_leftmost(_, _, _, _)
_descend_leftmost(file, header, block, cur) ==
    IF ~descent_continues(block, cur.depth) THEN cur
    ELSE LET node == ndx_read_node(file, block, header)
         IN IF ~node.ok THEN cur
            ELSE IF ndx_is_leaf_node(node) THEN push(cur, block, 0)
            ELSE _descend_leftmost(file, header,
                                   IF node.num_keys > 0 THEN node.childs[1]
                                   ELSE node.last_child,
                                   push(cur, block, 0))

RECURSIVE _advance_to_successor(_, _, _)
_advance_to_successor(file, header, cur) ==
    IF ~(cur.depth > 0) THEN cur
    ELSE LET child_pos == cur.stack_idx[cur.depth]
             node == ndx_read_node(file, cur.stack[cur.depth], header)
         IN IF ~node.ok THEN cur
            ELSE IF child_pos < node.num_keys
            THEN LET next_child_pos == child_pos + 1
                     next_block == IF next_child_pos < node.num_keys
                                   THEN node.childs[next_child_pos + 1]
                                   ELSE node.last_child
                     moved == [cur.stack_idx EXCEPT ![cur.depth] = next_child_pos]
                 IN _descend_leftmost(file, header, next_block,
                        [stack |-> SubSeq(cur.stack, 1, cur.depth),
                         stack_idx |-> SubSeq(moved, 1, cur.depth),
                         depth |-> cur.depth])
            ELSE _advance_to_successor(file, header,
                                       [cur EXCEPT !.depth = cur.depth - 1])

\* _next_entry: success, the entry, and the cursor after it
RECURSIVE _next_entry(_, _, _)
_next_entry(file, header, cur) ==
    IF ~(cur.depth > 0)
    THEN [success |-> FALSE, key |-> <<>>, recno |-> 0, cur |-> cur]
    ELSE LET idx == cur.stack_idx[cur.depth]
             node == ndx_read_node(file, cur.stack[cur.depth], header)
         IN IF ~node.ok
            THEN [success |-> FALSE, key |-> <<>>, recno |-> 0, cur |-> cur]
            ELSE IF ndx_is_leaf_node(node) /\ idx < node.num_keys
            THEN [success |-> TRUE, key |-> node.keys[idx + 1],
                  recno |-> node.recnos[idx + 1],
                  cur |-> [cur EXCEPT !.stack_idx[cur.depth] = idx + 1]]
            ELSE _next_entry(file, header,
                     _advance_to_successor(file, header,
                                           [cur EXCEPT !.depth = cur.depth - 1]))

\* the collecting loop of ndx_find_exact, lines 534-547
RECURSIVE collect_exact(_, _, _, _, _, _)
collect_exact(file, header, key_norm, max_count, cur, results) ==
    IF ~(Len(results) < max_count) THEN results
    ELSE LET e == _next_entry(file, header, cur)
         IN IF ~e.success THEN results
            ELSE IF _compare_keys(e.key, key_norm, header.key_len) # 0 THEN results
            ELSE collect_exact(file, header, key_norm, max_count, e.cur,
                               IF e.recno # 0 THEN Append(results, e.recno)
                               ELSE results)

ndx_find_exact(file, search_key, max_count) ==
    LET header == ndx_read_header(file)
    IN IF ~header.ok THEN <<>>
       ELSE LET key_norm == _normalize_key(search_key, header.key_len)
            IN collect_exact(file, header, key_norm, max_count,
                             _descend_to_first_ge(file, header, key_norm), <<>>)

\* _normalize_prefix: NULs to spaces, cut to key_len, no padding
_normalize_prefix(prefix, key_len) ==
    LET spaced == [i \in 1..Len(prefix) |-> IF prefix[i] = 0 THEN SP ELSE prefix[i]]
    IN IF Len(spaced) > key_len THEN SubSeq(spaced, 1, key_len) ELSE spaced

_starts_with_key(key_str, prefix) ==
    IF Len(prefix) = 0 THEN FALSE
    ELSE IF Len(key_str) < Len(prefix) THEN FALSE
    ELSE \A i \in 1..Len(prefix) : key_str[i] = prefix[i]

\* the collecting loop of ndx_find_prefix, lines 579-595
RECURSIVE collect_prefix(_, _, _, _, _, _)
collect_prefix(file, header, prefix_norm, max_count, cur, results) ==
    IF ~(Len(results) < max_count) THEN results
    ELSE LET e == _next_entry(file, header, cur)
         IN IF ~e.success THEN results
            ELSE IF ~_starts_with_key(_normalize_prefix(e.key, header.key_len), prefix_norm)
            THEN results
            ELSE collect_prefix(file, header, prefix_norm, max_count, e.cur,
                                IF e.recno # 0 THEN Append(results, e.recno)
                                ELSE results)

ndx_find_prefix(file, prefix, max_count) ==
    LET header == ndx_read_header(file)
    IN IF ~header.ok THEN <<>>
       ELSE LET prefix_norm == _normalize_prefix(prefix, header.key_len)
                key_norm == _normalize_key(prefix_norm, header.key_len)
            IN collect_prefix(file, header, prefix_norm, max_count,
                              _descend_to_first_ge(file, header, key_norm), <<>>)

----------------------------------------------------------------------------
(* NDX search: numeric and date keys *)

RECURSIVE floor_log2(_)
floor_log2(n) == IF n < 2 THEN 0 ELSE 1 + floor_log2(n \div 2)

\* struct.pack('<d', x) of the double x = -n or n, n an integer below 2^28:
\* sign, 11-bit exponent and the 52-bit fraction, of which the low 24 bits
\* are zero
pack_double_le(neg, n) ==
    IF n = 0 THEN <<0, 0, 0, 0, 0, 0, 0, IF neg THEN 128 ELSE 0>>
    ELSE LET e == floor_log2(n)
             exponent == 1023 + e
             frac == (n - 2^e) * 2^(28 - e)
         IN <<0, 0, 0, frac % 256, (frac \div 256) % 256, (frac \div 65536) % 256,
              ((exponent % 16) * 16) + (frac \div 16777216),
              (IF neg THEN 128 ELSE 0) + (exponent \div 16)>>

_make_key8_from_int(value) ==
    pack_double_le(value < 0, IF value < 0 THEN -value ELSE value)

_key_str_to_key8(key_str) ==
    SubSeq(key_str, 1, Min(8, Len(key_str))) \o Zeros(8 - Min(8, Len(key_str)))

_compare_key8(a, b) ==
    LET i == first_in({-j : j \in {k \in 1..8 : a[k] # b[k]}}, 0)
    IN IF i = 0 THEN 0 ELSE IF a[-i] < b[-i] THEN -1 ELSE 1

\* the loop of _descend_to_first_ge_number, lines 667-698
RECURSIVE descend_number_from(_, _, _, _, _)
descend_number_from(file, header, target, block, cur) ==
    IF ~descent_continues(block, cur.depth) THEN cur
    ELSE LET node == ndx_read_node(file, block, header)
         IN IF ~node.ok THEN cur
            ELSE IF ndx_is_leaf_node(node)
            THEN push(cur, block,
                      first_in({i \in 0..(node.num_keys - 1) :
                                  _compare_key8(_key_str_to_key8(node.keys[i + 1]),
                                                target) >= 0},
                               node.num_keys))
            ELSE LET next_idx ==
                         first_in({i \in 0..(node.num_keys - 1) :
                                     _compare_key8(target,
                                         _key_str_to_key8(node.keys[i + 1])) <= 0},
                                  node.num_keys)
                     next_block == IF next_idx < node.num_keys
                                   THEN node.childs[next_idx + 1]
                                   ELSE node.last_child
                 IN descend_number_from(file, header, target, next_block,
                                        push(cur, block, next_idx))

_descend_to_first_ge_number(file, header, target) ==
    descend_number_from(file, header, target, header.root_block,
                        [stack |-> <<>>, stack_idx |-> <<>>, depth |-> 0])

\* the collecting loop of ndx_find_number_exact, lines 731-744
RECURSIVE collect_number(_, _, _, _, _, _)
collect_number(file, header, target, max_count, cur, results) ==
    IF ~(Len(results) < max_count) THEN results
    ELSE LET e == _next_entry(file, header, cur)
         IN IF ~e.success THEN results
            ELSE IF _compare_key8(_key_str_to_key8(e.key), target) # 0 THEN results
            ELSE collect_number(file, header, target, max_count, e.cur,
                                IF e.recno # 0 THEN Append(results, e.recno)
                                ELSE results)

ndx_find_number_exact(file, value, max_count) ==
    LET header == ndx_read_header(file)
    IN IF ~header.ok THEN <<>>
       ELSE IF header.key_len < 8 THEN <<>>
       ELSE LET target == _make_key8_from_int(value)
            IN collect_number(file, header, target, max_count,
                              _descend_to_first_ge_number(file, header, target), <<>>)

\* the collecting loop of ndx_find_number_range, lines 781-795
RECURSIVE collect_number_range(_, _, _, _, _, _)
collect_number_range(file, header, max_key, max_count, cur, results) ==
    IF ~(Len(results) < max_count) THEN results
    ELSE LET e == _next_entry(file, header, cur)
         IN IF ~e.success THEN results
            ELSE IF _compare_key8(_key_str_to_key8(e.key), max_key) > 0 THEN results
            ELSE collect_number_range(file, header, max_key, max_count, e.cur,
                                      IF e.recno # 0 THEN Append(results, e.recno)
                                      ELSE results)

ndx_find_number_range(file, min_value, max_value, max_count) ==
    LET header == ndx_read_header(file)
    IN IF ~header.ok THEN <<>>
       ELSE IF header.key_len < 8 THEN <<>>
       ELSE IF min_value > max_value THEN <<>>
       ELSE LET min_key == _make_key8_from_int(min_value)
                max_key == _make_key8_from_int(max_value)
            IN collect_number_range(file, header, max_key, max_count,
                   _descend_to_first_ge_number(file, header, min_key), <<>>)

_gregorian_to_jdn(year, month, day) ==
    LET a == (14 - month) \div 12
        y == year + 4800 - a
        m == month + (12 * a) - 3
    IN day + (((153 * m) + 2) \div 5) + (365 * y) + (y \div 4) - (y \div 100)
       + (y \div 400) - 32045

\* _date_str_to_jdn: the day number, or a ValueError (ok = FALSE); int() is
\* applied to digit strings only
_date_str_to_jdn(date_str) ==
    LET s == strip(date_str)
        ymd == IF Len(s) = 10 /\ s[5] = 45 /\ s[8] = 45
               THEN <<SubSeq(s, 1, 4), SubSeq(s, 6, 7), SubSeq(s, 9, 10)>>
               ELSE IF Len(s) = 8
               THEN <<SubSeq(s, 1, 4), SubSeq(s, 5, 6), SubSeq(s, 7, 8)>>
               ELSE <<>>
    IN IF ymd = <<>> \/ \E i \in 1..3 : ~is_digits(ymd[i]) THEN [ok |-> FALSE]
       ELSE LET year == parse_digits(ymd[1])
                month == parse_digits(ymd[2])
                day == parse_digits(ymd[3])
            IN IF month < 1 \/ month > 12 \/ day < 1 \/ day > 31 THEN [ok |-> FALSE]
               ELSE [ok |-> TRUE, jdn |-> _gregorian_to_jdn(year, month, day)]

ndx_find_date_exact(file, date_str, max_count) ==
    LET d == _date_str_to_jdn(date_str)
    IN IF ~d.ok THEN <<>> ELSE ndx_find_number_exact(file, d.jdn, max_count)

----------------------------------------------------------------------------
(* NDX bulk build: ndx_create_index, _write_ndx_file *)

lower(c) == IF c >= 65 /\ c <= 90 THEN c + 32 ELSE c

upper_str(text) == [i \in 1..Len(text) |-> upper(text[i])]
lower_str(text) == [i \in 1..Len(text) |-> lower(text[i])]

\* str < str of Python: by code point, a proper prefix first
str_lt(a, b) ==
    LET i == first_in({j \in 1..Min(Len(a), Len(b)) : a[j] # b[j]}, 0)
    IN IF i = 0 THEN Len(a) < Len(b) ELSE a[i] < b[i]

\* x < y of the doubles that struct.unpack('<d') makes of two 8-byte keys,
\* neither of them a NaN
double_lt(a, b) ==
    LET mag_a == [a EXCEPT ![8] = a[8] % 128]
        mag_b == [b EXCEPT ![8] = b[8] % 128]
        cmp == _compare_key8(mag_a, mag_b)
    IN IF mag_a = Zeros(8) \o <<>> /\ mag_b = Zeros(8) \o <<>> THEN FALSE
       ELSE IF a[8] >= 128 /\ b[8] < 128 THEN TRUE
       ELSE IF a[8] < 128 /\ b[8] >= 128 THEN FALSE
       ELSE IF a[8] >= 128 THEN cmp > 0
       ELSE cmp < 0

\* float(key_str) of line 1007 for the texts of an integer field: a sign
\* and digits; every other text raises ValueError (ok = FALSE)
float_of_str(key_str) ==
    LET signed == key_str # <<>> /\ key_str[1] \in {43, 45}
        digits == IF signed THEN Tail(key_str) ELSE key_str
    IN IF is_digits(digits)
       THEN [ok |-> TRUE, neg |-> signed /\ key_str[1] = 45, n |-> parse_digits(digits)]
       ELSE [ok |-> FALSE]

\* ndx_create_index, lines 985-1016: the key of one row's field text
index_key(field_type, key_str, key_len) ==
    IF field_type = CH_D /\ key_str # <<>>
    THEN IF Len(key_str) = 8 /\ is_digits(key_str)
         THEN pack_double_le(FALSE,
                  _gregorian_to_jdn(parse_digits(SubSeq(key_str, 1, 4)),
                                    parse_digits(SubSeq(key_str, 5, 6)),
                                    parse_digits(SubSeq(key_str, 7, 8))))
         ELSE Zeros(key_len) \o <<>>
    ELSE IF field_type = CH_N
    THEN IF key_str = <<>> THEN pack_double_le(FALSE, 0)
         ELSE IF float_of_str(key_str).ok
         THEN pack_double_le(float_of_str(key_str).neg, float_of_str(key_str).n)
         ELSE Zeros(key_len) \o <<>>
    ELSE _normalize_key(key_str, key_len)

\* ndx_create_index, lines 961-1021: the entries of the first n rows
RECURSIVE index_entries(_, _, _, _, _, _)
index_entries(file, header, field_idx, field_type, key_len, n) ==
    IF n = 0 THEN <<>>
    ELSE LET row == RowAt(file, header, n - 1)
             before == index_entries(file, header, field_idx, field_type, key_len, n - 1)
             key_str == IF field_idx + 1 < Len(row) THEN strip(row[field_idx + 2])
                        ELSE <<>>
         IN IF Len(row) > 0 /\ row[1] = <<STAR>> THEN before
            ELSE Append(before, [key |-> index_key(field_type, key_str, key_len),
                                 recno |-> n])

\* entries.sort of lines 1059-1069: stable, by the double when key_len is 8
\* and by the key string otherwise
RECURSIVE sort_entries(_, _)
sort_entries(entries, key_len) ==
    IF entries = <<>> THEN <<>>
    ELSE LET n == Len(entries)
             done == sort_entries(SubSeq(entries, 1, n - 1), key_len)
             e == entries[n]
             k == first_in({i \in 1..Len(done) :
                              IF key_len = 8 THEN double_lt(e.key, done[i].key)
                              ELSE str_lt(e.key, done[i].key)},
                           Len(done) + 1)
         IN SubSeq(done, 1, k - 1) \o <<e>> \o SubSeq(done, k, Len(done))

\* items[i:i + size] for i in range(0, len(items), size)
RECURSIVE chunks(_, _)
chunks(items, size) ==
    IF items = <<>> THEN <<>>
    ELSE <<SubSeq(items, 1, Min(size, Len(items)))>>
         \o chunks(SubSeq(items, size + 1, Len(items)), size)

RECURSIVE node_groups(_, _)
node_groups(groups, group_len) ==
    IF groups = <<>> THEN <<>>
    ELSE pack_u32_le(Head(groups).child) \o pack_u32_le(Head(groups).recno)
         \o Head(groups).key \o Zeros(group_len - 8 - Len(Head(groups).key))
         \o node_groups(Tail(groups), group_len)

\* the 512-byte buffer of _write_leaf_node and _write_internal_node
node_buffer(groups, last_child, group_len) ==
    LET body == pack_u16_le(Len(groups)) \o <<0, 0>> \o node_groups(groups, group_len)
                \o pack_u32_le(last_child)
    IN body \o Zeros(NDX_BLOCK_SIZE - Len(body))

_write_leaf_node(f, block, entries, key_len, group_len, keys_max) ==
    file_write(f, block * NDX_BLOCK_SIZE,
        node_buffer([i \in 1..Len(entries) |->
                        [child |-> 0, recno |-> entries[i].recno, key |-> entries[i].key]],
                    0, group_len))

_write_internal_node(f, block, entries, child_blocks, last_child, key_len, group_len, keys_max) ==
    file_write(f, block * NDX_BLOCK_SIZE,
        node_buffer([i \in 1..Len(entries) |->
                        [child |-> child_blocks[i], recno |-> 0, key |-> entries[i].key]],
                    last_child, group_len))

_write_header(f, root_block, eof_block, key_len, keys_max, group_len, expr) ==
    LET buf == pack_u32_le(root_block) \o pack_u32_le(eof_block) \o Zeros(4)
               \o pack_u16_le(key_len) \o pack_u16_le(keys_max) \o Zeros(2)
               \o pack_u16_le(group_len) \o Zeros(4) \o expr
    IN file_write(f, 0, buf \o Zeros(NDX_BLOCK_SIZE - Len(buf)))

_write_empty_header(f, key_len, keys_max, group_len, expr) ==
    _write_header(f, 0, 1, key_len, keys_max, group_len, expr)

\* lines 1075-1086: the leaf nodes, written at blocks 1, 2, ...
RECURSIVE write_leaves(_, _, _, _, _, _)
write_leaves(acc, leaf_chunks, i, key_len, group_len, keys_max) ==
    IF i > Len(leaf_chunks) THEN acc
    ELSE write_leaves(
            [file |-> _write_leaf_node(acc.file, acc.block, leaf_chunks[i], key_len,
                                       group_len, keys_max),
             level |-> Append(acc.level,
                              [block |-> acc.block,
                               max_key |-> leaf_chunks[i][Len(leaf_chunks[i])].key]),
             block |-> acc.block + 1],
            leaf_chunks, i + 1, key_len, group_len, keys_max)

\* lines 1095-1122: one parent node per chunk of the level below
RECURSIVE write_parents(_, _, _, _, _, _)
write_parents(acc, level_chunks, i, key_len, group_len, keys_max) ==
    IF i > Len(level_chunks) THEN acc
    ELSE LET chunk == level_chunks[i]
             parent_entries == [j \in 1..(Len(chunk) - 1) |-> [key |-> chunk[j].max_key,
                                                                recno |-> 0]]
             child_blocks == [j \in 1..(Len(chunk) - 1) |-> chunk[j].block]
             last_child == chunk[Len(chunk)].block
         IN write_parents(
                [file |-> _write_internal_node(acc.file, acc.block, parent_entries,
                                               child_blocks, last_child, key_len,
                                               group_len, keys_max),
                 level |-> Append(acc.level,
                                  [block |-> acc.block,
                                   max_key |-> chunk[Len(chunk)].max_key]),
                 block |-> acc.block + 1],
                level_chunks, i + 1, key_len, group_len, keys_max)

\* lines 1092-1124: the levels above the leaves, bottom-up
RECURSIVE write_levels(_, _, _, _)
write_levels(acc, key_len, group_len, keys_max) ==
    IF ~(Len(acc.level) > 1) THEN acc
    ELSE write_levels(
            write_parents([file |-> acc.file, level |-> <<>>, block |-> acc.block],
                          chunks(acc.level, keys_max + 1), 1, key_len, group_len,
                          keys_max),
            key_len, group_len, keys_max)

\* _write_ndx_file: the bytes of the index file
_write_ndx_file(entries, key_len, keys_max, group_len, expr) ==
    IF Len(entries) = 0
    THEN _write_empty_header(<<>>, key_len, keys_max, group_len, expr)
    ELSE LET leaves == write_leaves([file |-> <<>>, level |-> <<>>, block |-> 1],
                                    chunks(sort_entries(entries, key_len), keys_max),
                                    1, key_len, group_len, keys_max)
             top == write_levels(leaves, key_len, group_len, keys_max)
         IN _write_header(top.file, top.level[1].block, top.block, key_len,
                          keys_max, group_len, expr)

\* ndx_create_index: FALSE (ok = FALSE), or TRUE and the index file
ndx_create_index(dbf, field_name) ==
    LET o == dbf_file_open(dbf)
    IN IF ~o.ok THEN [ok |-> FALSE]
       ELSE LET field_idx == first_in({i \in 0..(Len(o.header.fields) - 1) :
                                          upper_str(o.header.fields[i + 1].name)
                                             = upper_str(field_name)}, -1)
            IN IF field_idx = -1 THEN [ok |-> FALSE]
               ELSE LET field_type == o.header.fields[field_idx + 1].field_type
                        key_len == IF field_type \in {CH_D, CH_N} THEN 8
                                   ELSE o.header.fields[field_idx + 1].length
                        raw_len == key_len + 8
                        group_len == IF raw_len % 4 # 0 THEN raw_len + (4 - (raw_len % 4))
                                     ELSE raw_len
                        keys_max == (NDX_BLOCK_SIZE - 8) \div group_len
                    IN IF field_type \notin {CH_C, CH_D, CH_N} THEN [ok |-> FALSE]
                       ELSE IF key_len <= 0 \/ key_len > NDX_MAX_KEY_LEN THEN [ok |-> FALSE]
                       ELSE IF keys_max <= 0 \/ keys_max > NDX_MAX_KEYS THEN [ok |-> FALSE]
                       ELSE [ok |-> TRUE,
                             file |-> _write_ndx_file(
                                 index_entries(dbf, o.header, field_idx, field_type,
                                               key_len, o.header.record_count),
                                 key_len, keys_max, group_len, lower_str(field_name))]

----------------------------------------------------------------------------
(* A table that an application fills, tombstones, indexes and searches *)

MaxIndexRows == 6   \* rows of the indexed table
MaxTombstoneRow == 0 \* highest row index that is tombstoned before the build

FLD_CODE == <<67, 79, 68, 69>>      \* "CODE"
FLD_NUM == <<78, 85, 77>>           \* "NUM"
FLD_DAY == <<68, 65, 89>>           \* "DAY"
FLD_WIDE == <<87, 73, 68, 69>>      \* "WIDE"

IndexSchema ==
    DBFHeader(0, <<DBFColumn(FLD_NAME, CH_C, 3, 0), DBFColumn(FLD_CODE, CH_C, 8, 0),
                   DBFColumn(FLD_NUM, CH_N, 4, 0), DBFColumn(FLD_DAY, CH_D, 8, 0),
                   DBFColumn(FLD_WIDE, CH_C, 80, 0)>>)

\* NAME, CODE, NUM, DAY, WIDE of a row: "AB", -1, 2022-08-25 or "BA", 1,
\* 2022-08-26
IndexRows ==
    { <<<<65, 66>>, <<65, 66>>, <<45, 49>>, <<50, 48, 50, 50, 48, 56, 50, 53>>, <<65, 66>>>>,
      <<<<66, 65>>, <<66, 65>>, <<32, 49>>, <<50, 48, 50, 50, 48, 56, 50, 54>>, <<66, 65>>>> }

SearchKeys == { <<65, 66>>, <<66, 65>> }
SearchNumbers == { -1, 1 }
SearchDates == { <<50, 48, 50, 50, 48, 56, 50, 53>>,
                 <<50, 48, 50, 50, 45, 48, 56, 45, 50, 54>> }

\* "", "A" and "BA"
SearchPrefixes == { <<>>, <<65>>, <<66, 65>> }
\* [min_value, max_value]; 2459817 is the day number of 2022-08-25
SearchRanges == { <<-1, 1>>, <<1, 1>>, <<2459817, 2459818>> }

\* max_count of the searches, left at its default
DEFAULT_MAX_COUNT == 1000
RANGE_MAX_COUNT == 10000

NdxAppendRow(values) ==
    /\ ndxFile = <<>>
    /\ hdr.record_count < MaxIndexRows
    /\ LET r == dbf_file_append_row(dbfFile, hdr, values)
       IN /\ dbfFile' = r.file
          /\ hdr' = r.header
          /\ filePos' = r.pos
    /\ nAppended' = nAppended + 1
    /\ UNCHANGED <<lastOp, prevFile, nOps, headerHit>>
    /\ UNCHANGED memoVars
    /\ UNCHANGED restVars

NdxSetRowDeleted(row_index) ==
    /\ ndxFile = <<>>
    /\ row_index <= MaxTombstoneRow
    /\ LET r == dbf_file_set_row_deleted(dbfFile, hdr, row_index, TRUE)
       IN /\ dbfFile' = r.file
          /\ filePos' = r.pos
    /\ UNCHANGED <<hdr, nAppended, lastOp, prevFile, nOps, headerHit>>
    /\ UNCHANGED memoVars
    /\ UNCHANGED restVars

NdxCreateIndex(field_no) ==
    /\ ndxFile = <<>>
    /\ LET r == ndx_create_index(dbfFile, hdr.fields[field_no].name)
       IN /\ r.ok
          /\ ndxFile' = r.file
    /\ ndxField' = field_no
    /\ UNCHANGED <<outTable, lastFind>>
    /\ UNCHANGED extraVars
    /\ UNCHANGED tableVars
    /\ UNCHANGED memoVars

NdxFindExact(search_key) ==
    /\ ndxFile # <<>>
    /\ lastFind' = [kind |-> "exact", key |-> search_key,
                    result |-> ndx_find_exact(ndxFile, search_key, DEFAULT_MAX_COUNT)]
    /\ UNCHANGED <<outTable, ndxFile, ndxField>>
    /\ UNCHANGED extraVars
    /\ UNCHANGED tableVars
    /\ UNCHANGED memoVars

NdxFindNumberExact(value) ==
    /\ ndxFile # <<>>
    /\ lastFind' = [kind |-> "number", key |-> value,
                    result |-> ndx_find_number_exact(ndxFile, value, DEFAULT_MAX_COUNT)]
    /\ UNCHANGED <<outTable, ndxFile, ndxField>>
    /\ UNCHANGED extraVars
    /\ UNCHANGED tableVars
    /\ UNCHANGED memoVars

NdxFindDateExact(date_str) ==
    /\ ndxFile # <<>>
    /\ lastFind' = [kind |-> "date", key |-> date_str,
                    result |-> ndx_find_date_exact(ndxFile, date_str, DEFAULT_MAX_COUNT)]
    /\ UNCHANGED <<outTable, ndxFile, ndxField>>
    /\ UNCHANGED extraVars
    /\ UNCHANGED tableVars
    /\ UNCHANGED memoVars

NdxFindPrefix(prefix) ==
    /\ ndxFile # <<>>
    /\ lastFind' = [kind |-> "prefix", key |-> prefix,
                    result |-> ndx_find_prefix(ndxFile, prefix, DEFAULT_MAX_COUNT)]
    /\ UNCHANGED <<outTable, ndxFile, ndxField>>
    /\ UNCHANGED extraVars
    /\ UNCHANGED tableVars
    /\ UNCHANGED memoVars

NdxFindNumberRange(min_value, max_value) ==
    /\ ndxFile # <<>>
    /\ lastFind' = [kind |-> "range", key |-> <<min_value, max_value>>,
                    result |-> ndx_find_number_range(ndxFile, min_value, max_value,
                                                     RANGE_MAX_COUNT)]
    /\ UNCHANGED <<outTable, ndxFile, ndxField>>
    /\ UNCHANGED extraVars
    /\ UNCHANGED tableVars
    /\ UNCHANGED memoVars

InitNdx ==
    /\ LET c == create_table(IndexSchema)
       IN /\ dbfFile = c.file
          /\ hdr = c.header
          /\ filePos = c.pos
          /\ dbt = c.memo
    /\ nAppended = 0
    /\ lastOp = None
    /\ nOps = 0
    /\ headerHit = FALSE
    /\ prevFile = dbfFile
    /\ memoLog = <<>>
    /\ pend = None
    /\ nCrash = 0
    /\ justWrote = FALSE
    /\ outTable = None
    /\ ndxFile = <<>>
    /\ ndxField = 0
    /\ lastFind = None
    /\ ExtraIdle

NextNdx ==
    \/ \E values \in IndexRows : NdxAppendRow(values)
    \/ \E row_index \in 0..(hdr.record_count - 1) : NdxSetRowDeleted(row_index)
    \/ \E field_no \in 1..hdr.field_count : NdxCreateIndex(field_no)
    \/ \E search_key \in SearchKeys : NdxFindExact(search_key)
    \/ \E value \in SearchNumbers : NdxFindNumberExact(value)
    \/ \E date_str \in SearchDates : NdxFindDateExact(date_str)

SpecNdx == InitNdx /\ [][NextNdx]_vars

\* the same table under the prefix and range searches
MaxSearchRows == 3   \* rows of the table whose index is searched

NextNdxSearch ==
    \/ \E values \in IndexRows :
          hdr.record_count < MaxSearchRows /\ NdxAppendRow(values)
    \/ \E row_index \in 0..(hdr.record_count - 1) : NdxSetRowDeleted(row_index)
    \/ \E field_no \in 1..hdr.field_count : NdxCreateIndex(field_no)
    \/ \E prefix \in SearchPrefixes : NdxFindPrefix(prefix)
    \/ \E r \in SearchRanges : NdxFindNumberRange(r[1], r[2])

SpecNdxSearch == InitNdx /\ [][NextNdxSearch]_vars

----------------------------------------------------------------------------
(* Properties of the bulk-built index *)

without_dashes(text) == SelectSeq(text, LAMBDA c : c # 45)

\* the last search was the exact search for the key that row holds in the
\* indexed field: ndx_find_exact for type C, ndx_find_number_exact for
\* type N, ndx_find_date_exact for type D
SearchedKeyOf(row) ==
    LET text == strip(row[ndxField + 1])
        field_type == hdr.fields[ndxField].field_type
    IN IF field_type = CH_C THEN lastFind.kind = "exact" /\ lastFind.key = text
       ELSE IF field_type = CH_N
       THEN /\ lastFind.kind = "number"
            /\ float_of_str(text).ok
            /\ lastFind.key = (IF float_of_str(text).neg THEN -float_of_str(text).n
                               ELSE float_of_str(text).n)
       ELSE lastFind.kind = "date" /\ without_dashes(lastFind.key) = text

\* C6: after the bulk build, the exact search for the key of any live
\* record returns a list that holds the record's number.
C6_ExactSearchFindsRecord ==
    (ndxFile # <<>> /\ lastFind # None)
    => \A k \in 1..hdr.record_count :
          LET row == RowAt(dbfFile, hdr, k - 1)
          IN (row[1] # <<STAR>> /\ SearchedKeyOf(row))
             => \E i \in 1..Len(lastFind.result) : lastFind.result[i] = k

\* the entries of the index in leaf order, read with the cursor from the
\* leftmost leaf
RECURSIVE entries_from(_, _, _, _)
entries_from(file, header, cur, acc) ==
    LET e == _next_entry(file, header, cur)
    IN IF ~e.success \/ Len(acc) > MaxIndexRows THEN acc
       ELSE entries_from(file, header, e.cur,
                         Append(acc, [key |-> e.key, recno |-> e.recno]))

LeafEntries(file) ==
    LET header == ndx_read_header(file)
    IN entries_from(file, header,
                    _descend_leftmost(file, header, header.root_block,
                                      [stack |-> <<>>, stack_idx |-> <<>>, depth |-> 0]),
                    <<>>)

\* text begins with p
BeginsWith(text, p) == Len(p) <= Len(text) /\ SubSeq(text, 1, Len(p)) = p

NulsToSpaces(key) == [i \in 1..Len(key) |-> IF key[i] = 0 THEN SP ELSE key[i]]

RecnosOf(entries) == [i \in 1..Len(entries) |-> entries[i].recno]

\* C12: on a character index, ndx_find_prefix(p) returns exactly the record
\* numbers of the index entries whose normalised key begins with p, in leaf
\* order.
C12_PrefixSearchExact ==
    (ndxFile # <<>> /\ lastFind # None /\ lastFind.kind = "prefix"
        /\ hdr.fields[ndxField].field_type = CH_C)
    => lastFind.result
       = RecnosOf(SelectSeq(LeafEntries(ndxFile),
                            LAMBDA e : BeginsWith(NulsToSpaces(e.key), lastFind.key)))

\* the number a row holds in the indexed numeric or date field
RowNumberOf(row) ==
    LET text == strip(row[ndxField + 1])
    IN IF hdr.fields[ndxField].field_type = CH_D
       THEN _gregorian_to_jdn(parse_digits(SubSeq(text, 1, 4)),
                              parse_digits(SubSeq(text, 5, 6)),
                              parse_digits(SubSeq(text, 7, 8)))
       ELSE IF text = <<>> THEN 0
       ELSE IF float_of_str(text).neg THEN -float_of_str(text).n
       ELSE float_of_str(text).n

SetOf(seq) == {seq[i] : i \in 1..Len(seq)}

\* C13: on a numeric or date index, ndx_find_number_range(a, b) with
\* a <= b returns the record numbers whose keys lie in [a, b], which are
\* the union of ndx_find_number_exact(v) over the integers v of [a, b];
\* ndx_find_number_range(v, v) is the list of ndx_find_number_exact(v).
C13_RangeIsUnionOfExact ==
    (ndxFile # <<>> /\ lastFind # None /\ lastFind.kind = "range"
        /\ hdr.fields[ndxField].field_type \in {CH_N, CH_D})
    => LET a == lastFind.key[1]
           b == lastFind.key[2]
       IN /\ SetOf(lastFind.result)
             = {k \in 1..hdr.record_count :
                  /\ RowAt(dbfFile, hdr, k - 1)[1] # <<STAR>>
                  /\ RowNumberOf(RowAt(dbfFile, hdr, k - 1)) \in a..b}
          /\ SetOf(lastFind.result)
             = UNION {SetOf(ndx_find_number_exact(ndxFile, v, DEFAULT_MAX_COUNT)) :
                        v \in a..b}
          /\ a = b => lastFind.result
                       = ndx_find_number_exact(ndxFile, a, DEFAULT_MAX_COUNT)

----------------------------------------------------------------------------
(* A table that is created, has its header fields set, is closed and is    *)
(* opened again                                                            *)

\* dbf_file_set_date: the header in memory and bytes 1..3 of the file
dbf_file_set_date(file, header, year, month, day) ==
    [file |-> file_write(file, 1, <<year, month, day>>),
     header |-> [header EXCEPT !.year = year, !.month = month, !.day = day]]

\* dbf_file_set_language_driver: the header in memory and byte 29 of the file
dbf_file_set_language_driver(file, header, language_driver) ==
    [file |-> file_write(file, 29, <<language_driver>>),
     header |-> [header EXCEPT !.language_driver = language_driver]]

CH_L == 76

FLD_AMT == <<65, 77, 84>>                                        \* "AMT"
FLD_FLAG == <<70, 76, 65, 71>>                                   \* "FLAG"
FLD_LONG == <<67, 85, 83, 84, 79, 77, 69, 82, 95, 78, 77>>       \* "CUSTOMER_NM"

\* the name "F00", "F01", ... of the i-th field of a wide schema
FieldNameNo(i) == <<70, 48 + (i \div 10), 48 + (i % 10)>>

\* field lists: none, one field, one field of every type with an 11-character
\* name and a memo, 64 fields, and 16 fields of 255 bytes (record size 4081)
HeaderFields ==
    { <<>>,
      <<DBFColumn(FLD_ID, CH_N, 2, 0)>>,
      <<DBFColumn(FLD_LONG, CH_C, 255, 0), DBFColumn(FLD_AMT, CH_N, 10, 2),
        DBFColumn(FLD_FLAG, CH_L, 1, 0), DBFColumn(FLD_DAY, CH_D, 8, 0)>>,
      <<DBFColumn(FLD_ID, CH_N, 2, 0), DBFColumn(FLD_NOTE, CH_M, 10, 0)>>,
      [i \in 1..DBF_MAX_FIELDS |-> DBFColumn(FieldNameNo(i), CH_C, 1, 0)],
      [i \in 1..16 |-> DBFColumn(FieldNameNo(i), CH_C, 255, 0)] }

\* the version and language driver the caller leaves in the header
HeaderVersions == {0, 4, 5}
LanguageDrivers == {0, 1, 2}

\* the DBFHeader the caller builds: fields, version, language driver and date
caller_header(fields, version, language_driver) ==
    [DBFHeader(version, fields) EXCEPT !.language_driver = language_driver,
                                       !.year = 126, !.month = 11, !.day = 6]

HdrSetLanguageDriver(language_driver) ==
    /\ nOps < MaxHeaderOps
    /\ LET r == dbf_file_set_language_driver(dbfFile, hdr, language_driver)
       IN /\ dbfFile' = r.file
          /\ hdr' = r.header
    /\ nOps' = nOps + 1
    /\ UNCHANGED <<filePos, nAppended, lastOp, prevFile, headerHit>>
    /\ UNCHANGED memoVars
    /\ UNCHANGED <<outTable, ndxFile, ndxField, lastFind, schema, opened>>
    /\ UNCHANGED pureVars

HdrSetDate(year, month, day) ==
    /\ nOps < MaxHeaderOps
    /\ LET r == dbf_file_set_date(dbfFile, hdr, year, month, day)
       IN /\ dbfFile' = r.file
          /\ hdr' = r.header
    /\ nOps' = nOps + 1
    /\ UNCHANGED <<filePos, nAppended, lastOp, prevFile, headerHit>>
    /\ UNCHANGED memoVars
    /\ UNCHANGED <<outTable, ndxFile, ndxField, lastFind, schema, opened>>
    /\ UNCHANGED pureVars

HdrAppendRow(values) ==
    /\ nOps < MaxHeaderOps
    /\ LET r == dbf_file_append_row(dbfFile, hdr, values)
       IN /\ dbfFile' = r.file
          /\ hdr' = r.header
          /\ filePos' = r.pos
    /\ nAppended' = nAppended + 1
    /\ nOps' = nOps + 1
    /\ UNCHANGED <<lastOp, prevFile, headerHit>>
    /\ UNCHANGED memoVars
    /\ UNCHANGED <<outTable, ndxFile, ndxField, lastFind, schema, opened>>
    /\ UNCHANGED pureVars

\* dbf_file_close, then dbf_file_open of the same file: a new handle
HdrCloseAndOpen ==
    /\ LET o == dbf_file_open(dbfFile)
       IN /\ o.ok
          /\ opened' = o.header
          /\ hdr' = o.header
          /\ filePos' = o.pos
    /\ UNCHANGED <<dbfFile, nAppended, lastOp, nOps, prevFile, headerHit>>
    /\ UNCHANGED memoVars
    /\ UNCHANGED <<outTable, ndxFile, ndxField, lastFind, schema>>
    /\ UNCHANGED pureVars

\* a handle fresh from dbf_file_create or dbf_file_create_dbase3
InitHeader ==
    /\ \E fields \in HeaderFields, version \in HeaderVersions,
          language_driver \in LanguageDrivers, dbase3 \in BOOLEAN :
          LET header == caller_header(fields, version, language_driver)
              c == IF dbase3 THEN dbf_file_create_dbase3(header)
                   ELSE dbf_file_create(header)
          IN /\ dbfFile = c.file
             /\ hdr = c.header
             /\ filePos = c.pos
             /\ dbt = c.memo
             /\ schema = [header |-> header, dbase3 |-> dbase3]
    /\ opened = None
    /\ PureIdle
    /\ nAppended = 0
    /\ lastOp = None
    /\ nOps = 0
    /\ headerHit = FALSE
    /\ prevFile = dbfFile
    /\ memoLog = <<>>
    /\ pend = None
    /\ nCrash = 0
    /\ justWrote = FALSE
    /\ outTable = None
    /\ ndxFile = <<>>
    /\ ndxField = 0
    /\ lastFind = None

NextHeader ==
    \/ \E language_driver \in LanguageDrivers : HdrSetLanguageDriver(language_driver)
    \/ HdrSetDate(99, 12, 31)
    \/ HdrAppendRow(<<>>)
    \/ HdrCloseAndOpen

SpecHeader == InitHeader /\ [][NextHeader]_vars

----------------------------------------------------------------------------
(* Properties of create, header updates and reopen *)

\* the version byte a table created from the schema must carry
VersionOf(sch) ==
    IF sch.dbase3 THEN 3 ELSE IF has_memo_field(sch.header) THEN 5 ELSE 4

\* C11: a table created with schema S, closed and opened again has a header
\* whose fields equal S in name, type, length and decimals, in order, whose
\* header size is 32 + 32 * |S| + 1, whose record size is 1 + the sum of
\* the field lengths and whose record count is 0.
C11_CreateThenReopen ==
    (opened # None /\ nAppended = 0)
    => LET S == schema.header.fields
       IN /\ opened.field_count = Len(S)
          /\ Len(opened.fields) = Len(S)
          /\ \A i \in 1..Len(S) :
                /\ opened.fields[i].name = S[i].name
                /\ opened.fields[i].field_type = S[i].field_type
                /\ opened.fields[i].length = S[i].length
                /\ opened.fields[i].decimals = S[i].decimals
          /\ opened.header_size = 32 + (32 * Len(S)) + 1
          /\ opened.record_size = 1 + SumLen(S, Len(S))
          /\ opened.record_count = 0

\* a schema of 64 fields read back after the close
C11_Witness ==
    /\ opened # None
    /\ nAppended = 0
    /\ Len(schema.header.fields) = DBF_MAX_FIELDS
    /\ Len(opened.fields) = DBF_MAX_FIELDS
    /\ opened.header_size = 2081

\* C19: the version byte, in the cached header and at file offset 0, is
\* 0x03 for dbf_file_create_dbase3 and otherwise 0x05 with a memo field and
\* 0x04 without, whichever of 0, 0x04, 0x05 the caller set.
C19_VersionFromSchema ==
    /\ hdr.version = VersionOf(schema)
    /\ dbfFile[1] = VersionOf(schema)

\* the caller asked for 0x05 and the schema has no memo field
C19_Witness ==
    /\ ~schema.dbase3
    /\ schema.header.version = 5
    /\ ~has_memo_field(schema.header)
    /\ hdr.version = 4
    /\ dbfFile[1] = 4

\* C20: on a dBase III table the language-driver byte, in the cached header
\* and at file offset 29, is 0 after create and after every operation.
C20_Dbase3LanguageDriverZero ==
    hdr.version = 3 => hdr.language_driver = 0 /\ dbfFile[30] = 0

----------------------------------------------------------------------------
(* Progressive multi-group filtering: tests/test_progressive_filtering.py   *)
(* A Bitmap is the set of its set bits; text is a sequence of character     *)
(* codes, and a number stored in a field is its decimal text.               *)

MaxRecords == 3   \* records of the filtered list
MaxGroups == 2    \* groups of one call
MaxFilters == 2   \* filters of one group

\* int(text): an optional sign and digits between white space, or a
\* ValueError (ok = FALSE)
int_of_str(text) ==
    LET t == strip(text)
        signed == t # <<>> /\ t[1] \in {43, 45}
        digits == IF signed THEN Tail(t) ELSE t
    IN IF is_digits(digits)
       THEN [ok |-> TRUE,
             n |-> IF signed /\ t[1] = 45 THEN -parse_digits(digits)
                   ELSE parse_digits(digits)]
       ELSE [ok |-> FALSE]

\* Record.get_field
get_field(record, field_name) ==
    IF field_name \in DOMAIN record.fields THEN record.fields[field_name] ELSE <<>>

\* str.startswith
startswith(text, prefix) ==
    Len(prefix) <= Len(text) /\ SubSeq(text, 1, Len(prefix)) = prefix

evaluate_filter(record, filter_spec) ==
    LET field_value == get_field(record, filter_spec.field)
    IN IF filter_spec.kind = "EXACT_STR"
       THEN upper_str(field_value) = upper_str(filter_spec.value)
       ELSE IF filter_spec.kind = "EXACT_NUM"
       THEN LET a == int_of_str(field_value)
                b == int_of_str(filter_spec.value)
            IN a.ok /\ b.ok /\ a.n = b.n
       ELSE IF filter_spec.kind \in {"RANGE_NUM", "FIELD_RANGE"}
       THEN LET val == int_of_str(field_value)
            IN val.ok /\ filter_spec.min_val <= val.n /\ val.n <= filter_spec.max_val
       ELSE IF filter_spec.kind = "STARTS_WITH"
       THEN startswith(upper_str(field_value), upper_str(filter_spec.value))
       ELSE FALSE

\* the record numbers an index search returns
simulate_index_search(records, prefix, field) ==
    {records[k].rec_no : k \in {j \in 1..Len(records) :
        startswith(upper_str(get_field(records[j], field)), upper_str(prefix))}}

simulate_index_range_search(records, min_val, max_val, field) ==
    {records[k].rec_no : k \in {j \in 1..Len(records) :
        LET field_value == int_of_str(get_field(records[j], field))
        IN field_value.ok /\ min_val <= field_value.n /\ field_value.n <= max_val}}

\* a Bitmap passed as the candidates of a group
Bitmap(bits) == [bits |-> bits]

\* Bitmap.and_with that leaves the bitmap as it was
and_with_kept(bits, other) == bits

\* Bitmap.or_with, Bitmap.and_with
or_with(bits, other) == bits \cup other
and_with(bits, other) == bits \cap other

is_index_filter(filter_spec) == filter_spec.kind \in {"STARTS_WITH", "FIELD_RANGE"}

\* process_index_searches from filter k on: the matches bitmap after it;
\* candidates is a Bitmap or None, size is the size of the bitmaps
RECURSIVE process_index_searches(_, _, _, _, _, _)
process_index_searches(group, matches, records, candidates, size, k) ==
    IF k > Len(group.filters) THEN matches
    ELSE LET filter_spec == group.filters[k]
             rec_nos == IF filter_spec.kind = "STARTS_WITH"
                        THEN simulate_index_search(records, filter_spec.value,
                                                   filter_spec.field)
                        ELSE simulate_index_range_search(records, filter_spec.min_val,
                                                         filter_spec.max_val,
                                                         filter_spec.field)
             temp_bitmap == {rec_no \in rec_nos :
                               /\ (candidates = None \/ rec_no \in candidates.bits)
                               /\ 0 <= rec_no /\ rec_no < size}
         IN process_index_searches(group,
                IF ~is_index_filter(filter_spec) THEN matches
                ELSE IF group.mode = "ANY" THEN or_with(matches, temp_bitmap)
                ELSE and_with(matches, temp_bitmap),
                records, candidates, size, k + 1)

\* the ANY branch of process_numeric_filters from filter k on; without
\* candidates the scan set is the matches bitmap itself
RECURSIVE numeric_any(_, _, _, _, _)
numeric_any(group, matches, records, candidates, k) ==
    IF k > Len(group.filters) THEN matches
    ELSE LET filter_spec == group.filters[k]
             scan_set == IF candidates # None THEN candidates.bits ELSE matches
             temp_bitmap == {rec_no \in scan_set :
                               /\ rec_no < Len(records)
                               /\ evaluate_filter(records[rec_no + 1], filter_spec)}
         IN numeric_any(group,
                        IF is_index_filter(filter_spec) THEN matches
                        ELSE or_with(matches, temp_bitmap),
                        records, candidates, k + 1)

\* the ALL branch: the bit of a record is cleared when a numeric filter fails
numeric_all(group, matches, records) ==
    {rec_no \in matches :
        ~(/\ rec_no < Len(records)
          /\ \E k \in 1..Len(group.filters) :
                /\ ~is_index_filter(group.filters[k])
                /\ ~evaluate_filter(records[rec_no + 1], group.filters[k]))}

process_numeric_filters(group, matches, records, candidates) ==
    IF group.mode = "ANY" THEN numeric_any(group, matches, records, candidates, 1)
    ELSE numeric_all(group, matches, records)

\* Bitmap.set_all of a bitmap of that size
set_all(size) == 0..(size - 1)

\* the bitmap before the first group, lines 267-276
initial_matches(first_mode, records) ==
    IF first_mode = "ANY" THEN {} ELSE set_all(Len(records))

\* one pass of the loop over the groups, lines 282-318: group number i
\* (from 0) applied to the matches bitmap
process_group(i, group, matches, records) ==
    LET size == Len(records)
    IN IF i = 0
       THEN IF group.mode = "ANY"
            THEN process_numeric_filters(group,
                     process_index_searches(group, matches, records, None, size, 1),
                     records, Bitmap(set_all(size)))
            ELSE process_numeric_filters(group,
                     process_index_searches(group, matches, records, None, size, 1),
                     records, None)
       ELSE IF group.mode = "ANY"
            THEN LET prev_matches == matches
                 IN and_with(process_numeric_filters(group,
                                 process_index_searches(group, {}, records,
                                                        Bitmap(prev_matches), size, 1),
                                 records, Bitmap(prev_matches)),
                             prev_matches)
            ELSE process_numeric_filters(group,
                     process_index_searches(group, matches, records, None, size, 1),
                     records, None)

\* field texts of the records: last names "Sa", "sb", "T"; years "5", "7"
\* and a text that is no number
FieldValues ==
    { [LastName |-> <<83, 97>>, Year |-> <<53>>],
      [LastName |-> <<115, 98>>, Year |-> <<55>>],
      [LastName |-> <<84>>, Year |-> <<120>>] }

FilterSpec(kind, field, value, min_val, max_val) ==
    [kind |-> kind, field |-> field, value |-> value,
     min_val |-> min_val, max_val |-> max_val]

\* LastName starts with "s", Year within 5..6, Year = 7, LastName = "sa"
FilterSpecs ==
    { FilterSpec("STARTS_WITH", "LastName", <<115>>, 0, 0),
      FilterSpec("FIELD_RANGE", "Year", <<>>, 5, 6),
      FilterSpec("EXACT_NUM", "Year", <<55>>, 0, 0),
      FilterSpec("EXACT_STR", "LastName", <<115, 97>>, 0, 0) }

SeqsUpTo(S, n) == UNION {[1..k -> S] : k \in 0..n}

MatchGroups ==
    {[mode |-> mode, filters |-> filters] :
        mode \in {"ANY", "ALL"}, filters \in SeqsUpTo(FilterSpecs, MaxFilters)}

\* records numbered by their position
numbered(values) ==
    [k \in 1..Len(values) |-> [rec_no |-> k - 1, fields |-> values[k]]]

\* the records that satisfy the group: all of its filters for ALL, at
\* least one for ANY
Satisfying(group, records) ==
    {k - 1 : k \in {j \in 1..Len(records) :
        IF group.mode = "ALL"
        THEN \A f \in 1..Len(group.filters) :
                evaluate_filter(records[j], group.filters[f])
        ELSE \E f \in 1..Len(group.filters) :
                evaluate_filter(records[j], group.filters[f])}}

\* process_multi_group_filter(groups, records) is called with n groups, the
\* first of them of mode first_mode
InitFilter ==
    /\ \E values \in SeqsUpTo(FieldValues, MaxRecords), n \in 0..MaxGroups,
          first_mode \in {"ANY", "ALL"} :
          flt = [records |-> numbered(values), n |-> n, i |-> 0,
                 first_mode |-> IF n = 0 THEN "ALL" ELSE first_mode,
                 matches |-> IF n = 0 THEN set_all(Len(values))
                             ELSE initial_matches(first_mode, numbered(values)),
                 narrowed |-> FALSE, mode |-> "", exited |-> FALSE,
                 satisfying |-> set_all(Len(values))]
    /\ qry = None
    /\ heap = None
    /\ LaterIdle
    /\ schema = None
    /\ opened = None
    /\ dbfFile = <<>>
    /\ hdr = None
    /\ filePos = 0
    /\ nAppended = 0
    /\ lastOp = None
    /\ nOps = 0
    /\ prevFile = <<>>
    /\ headerHit = FALSE
    /\ dbt = <<>>
    /\ memoLog = <<>>
    /\ pend = None
    /\ nCrash = 0
    /\ justWrote = FALSE
    /\ outTable = None
    /\ ndxFile = <<>>
    /\ ndxField = 0
    /\ lastFind = None

\* the loop has ended: every group was processed or the bitmap was empty
FilterReturned == flt.i = flt.n \/ flt.exited

\* one pass of the loop, with the early exit on an empty bitmap
FltProcessGroup(group) ==
    /\ ~FilterReturned
    /\ flt.i = 0 => group.mode = flt.first_mode
    /\ LET matches == process_group(flt.i, group, flt.matches, flt.records)
       IN flt' = [flt EXCEPT !.matches = matches,
                             !.narrowed = /\ flt.i > 0
                                          /\ Cardinality(flt.matches) < Len(flt.records)
                                          /\ matches # flt.matches,
                             !.mode = group.mode,
                             !.i = flt.i + 1,
                             !.exited = (matches = {}),
                             !.satisfying = flt.satisfying
                                            \cap Satisfying(group, flt.records)]
    /\ UNCHANGED <<qry, heap, schema, opened>>
    /\ UNCHANGED laterVars
    /\ UNCHANGED <<outTable, ndxFile, ndxField, lastFind>>
    /\ UNCHANGED tableVars
    /\ UNCHANGED memoVars

NextFilter == \E group \in MatchGroups : FltProcessGroup(group)

SpecFilter == InitFilter /\ [][NextFilter]_vars

\* C14: the bitmap process_multi_group_filter returns holds exactly the
\* records that satisfy every group.  (After an early exit the groups not
\* yet processed can only shrink the satisfying set, which is empty then.)
C14_BitmapIsIntersection ==
    FilterReturned => flt.matches = flt.satisfying

\* two groups were processed, the second one an ANY group that narrowed a
\* bitmap the first group had already narrowed
C14_Witness ==
    /\ FilterReturned
    /\ flt.i = 2
    /\ flt.mode = "ANY"
    /\ flt.narrowed
    /\ flt.matches # {}

----------------------------------------------------------------------------
(* The query engine of dbf_query_v2.py: heap map, filter groups, execute *)

MaxQueryRows == 3     \* rows of the table that is queried
MaxQueryGroups == 2   \* groups of one query
MaxQueryFilters == 2  \* filters of one group

\* FilterOp and GroupOp, by their values
OP_EQUAL == "="
OP_NOT_EQUAL == "!="
OP_LESS_THAN == "<"
OP_LESS_EQUAL == "<="
OP_GREATER_THAN == ">"
OP_GREATER_EQUAL == ">="
OP_BETWEEN == "BETWEEN"
OP_LIKE == "LIKE"
GROUP_AND == "AND"
GROUP_OR == "OR"

\* a list of record numbers, or the exception that left the call
Returned(recnos) == [ok |-> TRUE, recnos |-> recnos]
Raised(error) == [ok |-> FALSE, error |-> error]

\* sorted(list(S)) of a set of record numbers
RECURSIVE sorted(_)
sorted(S) ==
    IF S = {} THEN <<>>
    ELSE LET least == CHOOSE r \in S : \A q \in S : r <= q
         IN <<least>> \o sorted(S \ {least})

\* UnifiedHeapMap._find_field_index: -1 for None
_find_field_index(header, field_name) ==
    first_in({i \in 0..(Len(header.fields) - 1) :
                upper_str(header.fields[i + 1].name) = upper_str(field_name)}, -1)

\* UnifiedHeapMap._build_map, lines 105-120: the typed value of a field text
\* (has = FALSE for None).  The numeric texts of these tables hold no '.'.
heap_value(field_type, text) ==
    LET value == strip(text)
    IN IF field_type = CH_N
       THEN IF value # <<>> /\ int_of_str(value).ok
            THEN [has |-> TRUE, v |-> int_of_str(value).n]
            ELSE [has |-> FALSE, v |-> 0]
       ELSE IF field_type = CH_D
       THEN IF Len(value) = 8 /\ is_digits(value)
            THEN [has |-> TRUE, v |-> parse_digits(value)]
            ELSE [has |-> FALSE, v |-> 0]
       ELSE [has |-> FALSE, v |-> 0]

\* UnifiedHeapMap: recno_to_values of the fields named, or the ValueError
\* of a name that is not a field of the table
UnifiedHeapMap(dbf, field_names) ==
    LET header == dbf_file_open(dbf).header
    IN IF \E name \in field_names : _find_field_index(header, name) = -1
       THEN Raised("ValueError")
       ELSE [ok |-> TRUE,
             recno_to_values |->
                 [recno \in 1..header.record_count |->
                    LET row == dbf_file_read_row(dbf, header,
                                   row_position(header, recno - 1)).row
                    IN [name \in field_names |->
                          IF row = <<>> THEN [has |-> FALSE, v |-> 0]
                          ELSE heap_value(
                                   header.fields[_find_field_index(header, name) + 1].field_type,
                                   row[_find_field_index(header, name) + 2])]]]

\* UnifiedHeapMap.evaluate_filter, lines 169-183: the comparison of one value
filter_match(field_value, op, value, value2) ==
    IF op = OP_EQUAL THEN field_value = value
    ELSE IF op = OP_NOT_EQUAL THEN field_value # value
    ELSE IF op = OP_LESS_THAN THEN field_value < value
    ELSE IF op = OP_LESS_EQUAL THEN field_value <= value
    ELSE IF op = OP_GREATER_THAN THEN field_value > value
    ELSE IF op = OP_GREATER_EQUAL THEN field_value >= value
    ELSE IF op = OP_BETWEEN THEN value <= field_value /\ field_value <= value2
    ELSE FALSE

\* UnifiedHeapMap.evaluate_filter: the record numbers of recnos, in their
\* order, whose field has a value that matches
heap_evaluate_filter(heap_map, recnos, field_name, op, value, value2) ==
    LET keep(recno) ==
            /\ recno \in DOMAIN heap_map.recno_to_values
            /\ heap_map.recno_to_values[recno][field_name].has
            /\ filter_match(heap_map.recno_to_values[recno][field_name].v,
                            op, value, value2)
    IN SelectSeq(recnos, keep)

\* the value of a filter: a text (for the index) or a number (for the heap)
Text(text) == [is_text |-> TRUE, text |-> text, n |-> 0]
Number(n) == [is_text |-> FALSE, text |-> <<>>, n |-> n]

\* Filter: ndx_file is TRUE for a filter that names the index file
Filter(field_name, op, value, value2, ndx_file) == [field_name |-> field_name, op |-> op, value |-> value, value2 |-> value2, ndx_file |-> ndx_file]

is_string_filter(filter) == filter.ndx_file

FilterGroup(operator, filters) == [operator |-> operator, filters |-> filters]

\* FilterGroup._evaluate_single_filter
_evaluate_single_filter(recnos, filter, heap_map, ndx) ==
    IF is_string_filter(filter)
    THEN IF filter.op \notin {OP_LIKE, OP_EQUAL} THEN Raised("ValueError")
         ELSE LET ndx_results ==
                      IF filter.op = OP_LIKE
                      THEN ndx_find_prefix(ndx, filter.value.text, DEFAULT_MAX_COUNT)
                      ELSE ndx_find_exact(ndx, filter.value.text, DEFAULT_MAX_COUNT)
                  recno_set == { recnos[k] : k \in 1..Len(recnos) }
              IN Returned(sorted({ ndx_results[k] : k \in 1..Len(ndx_results) }
                                 \cap recno_set))
    ELSE Returned(heap_evaluate_filter(heap_map, recnos, filter.field_name,
                                       filter.op, filter.value.n, filter.value2.n))

\* FilterGroup.evaluate, lines 279-286: the filters one after the other
RECURSIVE evaluate_and(_, _, _, _, _)

\* lines 282-285: after filter k gave r, the break or the next filter
and_next(r, filters, k, heap_map, ndx) ==
    IF ~r.ok \/ r.recnos = <<>> THEN r
    ELSE evaluate_and(filters, k + 1, r.recnos, heap_map, ndx)

evaluate_and(filters, k, result, heap_map, ndx) ==
    IF k > Len(filters) THEN Returned(result)
    ELSE and_next(_evaluate_single_filter(result, filters[k], heap_map, ndx),
                  filters, k, heap_map, ndx)

\* an ANY group that answers with its first filter alone
evaluate_or_first(filters, k, recnos, all_results, heap_map, ndx) ==
    _evaluate_single_filter(recnos, filters[1], heap_map, ndx)

\* FilterGroup.evaluate, lines 287-300: the union of the filters
RECURSIVE evaluate_or(_, _, _, _, _, _)

\* lines 293-298: after filter k gave r, the short-circuit or the next filter
or_next(r, filters, k, recnos, all_results, heap_map, ndx) ==
    IF ~r.ok THEN r
    ELSE IF Cardinality(all_results \cup { r.recnos[j] : j \in 1..Len(r.recnos) })
               = Cardinality({ recnos[j] : j \in 1..Len(recnos) })
    THEN Returned(sorted(all_results \cup { r.recnos[j] : j \in 1..Len(r.recnos) }))
    ELSE evaluate_or(filters, k + 1, recnos,
                     all_results \cup { r.recnos[j] : j \in 1..Len(r.recnos) },
                     heap_map, ndx)

evaluate_or(filters, k, recnos, all_results, heap_map, ndx) ==
    IF k > Len(filters) THEN Returned(sorted(all_results))
    ELSE or_next(_evaluate_single_filter(recnos, filters[k], heap_map, ndx),
                 filters, k, recnos, all_results, heap_map, ndx)

\* FilterGroup.evaluate
evaluate(group, recnos, heap_map, ndx) ==
    IF group.filters = <<>> THEN Returned(recnos)
    ELSE IF group.operator = GROUP_AND
    THEN evaluate_and(group.filters, 1, recnos, heap_map, ndx)
    ELSE evaluate_or(group.filters, 1, recnos, {}, heap_map, ndx)

\* DBFQuery.execute, lines 427-435: the groups one after the other
RECURSIVE apply_groups(_, _, _, _, _)

\* lines 429-435: after group i gave r, the break or the next group
group_next(r, groups, i, heap_map, ndx) ==
    IF ~r.ok \/ r.recnos = <<>> THEN r
    ELSE apply_groups(groups, i + 1, r.recnos, heap_map, ndx)

apply_groups(groups, i, recnos, heap_map, ndx) ==
    IF i > Len(groups) THEN Returned(recnos)
    ELSE group_next(evaluate(groups[i], recnos, heap_map, ndx), groups, i, heap_map, ndx)

\* DBFQuery.add_group, lines 396-398
non_string_fields(groups) ==
    UNION { { groups[i].filters[k].field_name :
                k \in { k \in 1..Len(groups[i].filters) :
                          ~is_string_filter(groups[i].filters[k]) } } :
            i \in 1..Len(groups) }

\* DBFQuery.execute, lines 412-416: the heap map of the non-string fields
\* (with no such field it stays None, and no filter reads it: an empty map)
build_heap(dbf, field_names) ==
    IF field_names # {} THEN UnifiedHeapMap(dbf, field_names)
    ELSE [ok |-> TRUE, recno_to_values |-> <<>>]

\* DBFQuery.execute, lines 419-440: the groups applied to every record
with_heap_map(groups, heap_map, record_count, ndx) ==
    IF ~heap_map.ok THEN heap_map
    ELSE apply_groups(groups, 1, [r \in 1..record_count |-> r], heap_map, ndx)

\* DBFQuery.execute
execute(groups, dbf, ndx) ==
    IF groups = <<>> THEN Returned(<<>>)
    ELSE with_heap_map(groups, build_heap(dbf, non_string_fields(groups)),
                       dbf_file_open(dbf).header.record_count, ndx)

----------------------------------------------------------------------------
(* Queries over a small indexed table *)

\* the rows of the indexed table, and "AB" with the number 1
QueryRows ==
    IndexRows \cup { <<<<65, 66>>, <<65, 66>>, <<32, 49>>, <<50, 48, 50, 50, 48, 56, 50, 53>>, <<65, 66>>>> }

\* NAME LIKE "A%" and NAME = "BA" through the index, NUM = 1, and a filter
\* the index cannot answer
QueryFilters ==
    { Filter(FLD_NAME, OP_LIKE, Text(<<65>>), Number(0), TRUE),
      Filter(FLD_NAME, OP_EQUAL, Text(<<66, 65>>), Number(0), TRUE),
      Filter(FLD_NUM, OP_EQUAL, Number(1), Number(0), FALSE),
      Filter(FLD_NAME, OP_NOT_EQUAL, Text(<<65, 66>>), Number(0), TRUE) }

QueryGroups ==
    { FilterGroup(operator, filters) :
        operator \in {GROUP_AND, GROUP_OR},
        filters \in { f \in SeqsUpTo(QueryFilters, MaxQueryFilters) :
                        /\ f # <<>>
                        /\ \A a, b \in 1..Len(f) : a # b => f[a] # f[b] } }

QryAppendRow(values) ==
    /\ hdr.record_count < MaxQueryRows
    /\ NdxAppendRow(values)

QryCreateIndex ==
    /\ hdr.record_count > 0
    /\ NdxCreateIndex(1)

\* DBFQuery(...).add_group(...): one more group of the query
QryAddGroup(group) ==
    /\ ndxFile # <<>>
    /\ qry.result = None
    /\ Len(qry.groups) < MaxQueryGroups
    /\ qry' = [qry EXCEPT !.groups = Append(qry.groups, group)]
    /\ UNCHANGED <<flt, heap, schema, opened>>
    /\ UNCHANGED laterVars
    /\ UNCHANGED <<outTable, ndxFile, ndxField, lastFind>>
    /\ UNCHANGED tableVars
    /\ UNCHANGED memoVars

QryExecute ==
    /\ ndxFile # <<>>
    /\ qry.result = None
    /\ qry' = [qry EXCEPT !.result = execute(qry.groups, dbfFile, ndxFile)]
    /\ UNCHANGED <<flt, heap, schema, opened>>
    /\ UNCHANGED laterVars
    /\ UNCHANGED <<outTable, ndxFile, ndxField, lastFind>>
    /\ UNCHANGED tableVars
    /\ UNCHANGED memoVars

InitQuery ==
    /\ LET c == create_table(IndexSchema)
       IN /\ dbfFile = c.file
          /\ hdr = c.header
          /\ filePos = c.pos
          /\ dbt = c.memo
    /\ nAppended = 0
    /\ lastOp = None
    /\ nOps = 0
    /\ headerHit = FALSE
    /\ prevFile = dbfFile
    /\ memoLog = <<>>
    /\ pend = None
    /\ nCrash = 0
    /\ justWrote = FALSE
    /\ outTable = None
    /\ ndxFile = <<>>
    /\ ndxField = 0
    /\ lastFind = None
    /\ schema = None
    /\ opened = None
    /\ flt = None
    /\ heap = None
    /\ LaterIdle
    /\ qry = [groups |-> <<>>, result |-> None]

NextQuery ==
    \/ \E values \in QueryRows : QryAppendRow(values)
    \/ QryCreateIndex
    \/ \E group \in QueryGroups : QryAddGroup(group)
    \/ QryExecute

SpecQuery == InitQuery /\ [][NextQuery]_vars

\* seq with the elements at i and j exchanged
SwapAt(seq, i, j) == [seq EXCEPT ![i] = seq[j], ![j] = seq[i]]

\* the query with its groups i and j exchanged
SwapGroups(groups, i, j) == SwapAt(groups, i, j)

\* the query with the filters a and b of its group i exchanged
SwapFilters(groups, i, a, b) ==
    [groups EXCEPT ![i] = FilterGroup(groups[i].operator, SwapAt(groups[i].filters, a, b))]

\* execute gives the same for the query and for each reordering of it
OrderFree(groups, result) ==
    /\ \A i, j \in 1..Len(groups) :
         (i < j /\ groups[i].operator = GROUP_AND /\ groups[j].operator = GROUP_AND)
            => execute(SwapGroups(groups, i, j), dbfFile, ndxFile) = result
    /\ \A i \in 1..Len(groups) : \A a, b \in 1..MaxQueryFilters :
         (groups[i].operator = GROUP_OR /\ a < b /\ b <= Len(groups[i].filters))
            => execute(SwapFilters(groups, i, a, b), dbfFile, ndxFile) = result

Executed == qry # None /\ qry.result # None

\* every string filter asks the index for LIKE or for EQUAL
Answerable(groups) ==
    \A i \in 1..Len(groups) : \A k \in 1..Len(groups[i].filters) :
        is_string_filter(groups[i].filters[k])
            => groups[i].filters[k].op \in {OP_LIKE, OP_EQUAL}

----------------------------------------------------------------------------
(* The heap map builder of tests/test_heap_builder.py *)

MaxHeapFields == 3    \* field specs of one heap map
MaxHeapRecords == 1   \* records of one heap map

\* HeapFieldType
WORD == 1
LONGINT == 2
BITFLAGS == 3
NIBBLE == 4
BYTE == 5

\* the signed 32 bits
LONG_MAX == 2147483647
LONG_MIN == -LONG_MAX - 1

\* a Python value of a record: an int, a str or None.  The int is
\* n + beyond: BigValue is an int above the signed 32 bits
IntValue(n) == [t |-> "int", s |-> <<>>, n |-> n, beyond |-> 0]
BigValue(beyond) == [t |-> "int", s |-> <<>>, n |-> LONG_MAX, beyond |-> beyond]
StrValue(s) == [t |-> "str", s |-> s, n |-> 0, beyond |-> 0]
NoValue == [t |-> "none", s |-> <<>>, n |-> 0, beyond |-> 0]

\* struct.pack('<i', n) / struct.unpack('<i', b) of a signed 32-bit n
pack_i32_le(n) ==
    IF n >= 0 THEN pack_u32_le(n)
    ELSE [pack_u32_le(n - LONG_MIN) EXCEPT ![4] = @ + 128]

unpack_i32_le(b) ==
    IF b[4] >= 128 THEN unpack_u32_le([b EXCEPT ![4] = @ - 128]) + LONG_MIN
    ELSE unpack_u32_le(b)

\* what an accessor gives back
Got(value) == [ok |-> TRUE, value |-> value]

\* a & b and a | b of two bytes
RECURSIVE bit_and(_, _)
bit_and(a, b) ==
    IF a = 0 \/ b = 0 THEN 0
    ELSE 2 * bit_and(a \div 2, b \div 2) + (IF a % 2 = 1 /\ b % 2 = 1 THEN 1 ELSE 0)

bit_or(a, b) == a + b - bit_and(a, b)

\* HeapFieldSpec.__init__
HeapFieldSpec(dbf_field_idx, heap_field_type, convert_to_jdn, bit_mask, nibble_shift) == [dbf_field_idx |-> dbf_field_idx, heap_field_type |-> heap_field_type, heap_offset |-> 0, convert_to_jdn |-> convert_to_jdn, bit_mask |-> bit_mask, nibble_shift |-> nibble_shift]

\* HeapMap.__init__
HeapMap(record_size) == [record_count |-> 0, record_size |-> record_size, field_count |-> 0, field_specs |-> <<>>, records |-> <<>>]

DBFRecord(rec_no, fields) == [rec_no |-> rec_no, fields |-> fields]

\* DBFRecord.get_field
rec_get_field(record, field_idx) ==
    IF field_idx = 0 THEN IntValue(record.rec_no)
    ELSE IF 0 < field_idx /\ field_idx <= Len(record.fields) THEN record.fields[field_idx]
    ELSE NoValue

date_to_jdn(year, month, day) ==
    LET a == (14 - month) \div 12
        y == year + 4800 - a
        m == month + (12 * a) - 3
    IN day + ((153 * m + 2) \div 5) + (365 * y) + (y \div 4) - (y \div 100)
       + (y \div 400) - 32045

dbf_date_str_to_jdn(date_str) ==
    IF Len(date_str) # 8 THEN 0
    ELSE LET year == int_of_str(SubSeq(date_str, 1, 4))
             month == int_of_str(SubSeq(date_str, 5, 6))
             day == int_of_str(SubSeq(date_str, 7, 8))
         IN IF ~year.ok \/ ~month.ok \/ ~day.ok THEN 0
            ELSE IF year.n < 1 \/ month.n < 1 \/ month.n > 12 \/ day.n < 1 \/ day.n > 31
            THEN 0
            ELSE date_to_jdn(year.n, month.n, day.n)

\* calculate_heap_layout, lines 107-165: the offset of one spec and the
\* offsets that the next spec starts from (known = FALSE for an unknown type)
layout_step(spec, current_offset, last_bitflags_offset, last_nibble_offset) ==
    LET t == spec.heap_field_type
        aligned == IF t = WORD THEN current_offset + (current_offset % 2)
                   ELSE IF t = LONGINT THEN current_offset + ((4 - (current_offset % 4)) % 4)
                   ELSE current_offset
        shares == \/ t = BITFLAGS /\ last_bitflags_offset >= 0
                  \/ t = NIBBLE /\ last_nibble_offset >= 0
        heap_offset == IF t = BITFLAGS /\ shares THEN last_bitflags_offset
                       ELSE IF t = NIBBLE /\ shares THEN last_nibble_offset
                       ELSE aligned
        field_size == IF t = WORD THEN 2 ELSE IF t = LONGINT THEN 4
                      ELSE IF shares THEN 0 ELSE 1
    IN [known |-> t \in {WORD, LONGINT, BITFLAGS, NIBBLE, BYTE},
        spec |-> [spec EXCEPT !.heap_offset = heap_offset,
                              !.nibble_shift = IF t = NIBBLE
                                               THEN (IF shares THEN 4 ELSE 0)
                                               ELSE spec.nibble_shift],
        current_offset |-> aligned + field_size,
        last_bitflags_offset |-> IF t = BITFLAGS /\ ~shares THEN current_offset
                                 ELSE IF t = BITFLAGS THEN last_bitflags_offset
                                 ELSE -1,
        last_nibble_offset |-> IF t = NIBBLE /\ ~shares THEN current_offset ELSE -1]

\* calculate_heap_layout, lines 171-173
padded_size(current_offset) ==
    IF current_offset % 8 # 0 THEN ((current_offset \div 8) + 1) * 8 ELSE current_offset

\* calculate_heap_layout from spec k on: what it returns, and the specs as
\* it leaves them
RECURSIVE layout_from(_, _, _, _, _, _)
layout_from(field_specs, k, current_offset, last_bitflags_offset, last_nibble_offset, target_record_size) ==
    IF k > Len(field_specs)
    THEN [ok |-> padded_size(current_offset) <= target_record_size,
          field_specs |-> field_specs]
    ELSE LET s == layout_step(field_specs[k], current_offset, last_bitflags_offset,
                              last_nibble_offset)
         IN IF ~s.known THEN [ok |-> FALSE, field_specs |-> field_specs]
            ELSE IF s.current_offset > target_record_size
            THEN [ok |-> FALSE, field_specs |-> [field_specs EXCEPT ![k] = s.spec]]
            ELSE layout_from([field_specs EXCEPT ![k] = s.spec], k + 1, s.current_offset,
                             s.last_bitflags_offset, s.last_nibble_offset,
                             target_record_size)

calculate_heap_layout(field_specs, target_record_size) ==
    layout_from(field_specs, 1, 0, -1, -1, target_record_size)

\* build_heap_map, lines 221-232: the value that is packed
source_value(record, spec) ==
    IF spec.dbf_field_idx = 0 THEN IntValue(record.rec_no)
    ELSE LET found == rec_get_field(record, spec.dbf_field_idx)
             value == IF found.t = "none" THEN IntValue(0) ELSE found
         IN IF spec.convert_to_jdn /\ value.t = "str"
            THEN IntValue(dbf_date_str_to_jdn(value.s))
            ELSE value

\* build_heap_map, lines 238-242 and 247-251: int(value) of a str, or 0
int_or_zero(value) ==
    IF value.t = "str"
    THEN (IF int_of_str(value.s).ok THEN int_of_str(value.s).n ELSE 0)
    ELSE value.n

\* build_heap_map, lines 256-263
bit_value_of(value) ==
    IF value.t = "str"
    THEN (IF upper_str(value.s) \in { <<84>>, <<89>> } THEN 1 ELSE 0)
    ELSE IF value.t = "int" THEN (IF value.n # 0 THEN 1 ELSE 0)
    ELSE 0

\* max(low, min(high, int(value))) of an int, 0 of every other value
clamped(value, low, high) ==
    Max(low, Min(high, IF value.t = "int" THEN value.n ELSE 0))

\* build_heap_map, lines 234-285: one field packed into the record buffer,
\* or the struct.error of a LONGINT outside the signed 32 bits
pack_field(record_buffer, spec, value) ==
    LET at == spec.heap_offset
        old == record_buffer[at + 1]
    IN IF spec.heap_field_type = WORD
       THEN Got(file_write(record_buffer, at,
                           pack_u16_le(((int_or_zero(value) % 65536) + value.beyond)
                                          % 65536)))
       ELSE IF spec.heap_field_type = LONGINT
       THEN IF int_or_zero(value) < LONG_MIN \/ int_or_zero(value) > LONG_MAX - value.beyond
            THEN Raised("struct.error")
            ELSE Got(file_write(record_buffer, at, pack_i32_le(int_or_zero(value))))
       ELSE IF spec.heap_field_type = BITFLAGS
       THEN Got(IF bit_value_of(value) = 1
                THEN [record_buffer EXCEPT ![at + 1] = bit_or(old, spec.bit_mask)]
                ELSE record_buffer)
       ELSE IF spec.heap_field_type = NIBBLE
       THEN Got([record_buffer EXCEPT ![at + 1] =
                    IF spec.nibble_shift = 0
                    THEN (old \div 16) * 16 + (clamped(value, 0, 15) % 16)
                    ELSE (old % 16) + (clamped(value, 0, 15) % 16) * 16])
       ELSE IF spec.heap_field_type = BYTE
       THEN Got([record_buffer EXCEPT ![at + 1] = clamped(value, 0, 255)])
       ELSE Got(record_buffer)

\* build_heap_map, lines 219-285: the fields of one record from spec k on
RECURSIVE pack_record(_, _, _, _)
pack_record(record, field_specs, k, record_buffer) ==
    IF k > Len(field_specs) THEN Got(record_buffer)
    ELSE LET r == pack_field(record_buffer, field_specs[k],
                             source_value(record, field_specs[k]))
         IN IF ~r.ok THEN r
            ELSE pack_record(record, field_specs, k + 1, r.value)

\* build_heap_map, lines 214-288: the records from record k on
RECURSIVE load_records(_, _, _, _)
load_records(heap_map, records, k, target_record_size) ==
    IF k > Len(records) THEN Got(heap_map)
    ELSE LET r == pack_record(records[k], heap_map.field_specs, 1,
                              Zeros(target_record_size))
         IN IF ~r.ok THEN r
            ELSE load_records([heap_map EXCEPT !.records = Append(heap_map.records, r.value),
                                               !.record_count = heap_map.record_count + 1],
                              records, k + 1, target_record_size)

\* build_heap_map: the heap map returned (or the exception), whether the
\* layout was accepted, and the caller's field specs as the call leaves them
build_heap_map(records, field_specs, target_record_size) ==
    LET layout == calculate_heap_layout(field_specs, target_record_size)
        heap_map == [HeapMap(target_record_size) EXCEPT
                        !.field_specs = layout.field_specs,
                        !.field_count = Len(field_specs)]
    IN [accepted |-> layout.ok,
        field_specs |-> layout.field_specs,
        returned |-> IF ~layout.ok THEN Got(heap_map)
                     ELSE load_records(heap_map, records, 1, target_record_size)]

\* list[idx] of Python: a negative index counts from the end
list_item(list, idx) ==
    IF 0 <= idx /\ idx < Len(list) THEN Got(list[idx + 1])
    ELSE IF idx < 0 /\ -idx <= Len(list) THEN Got(list[Len(list) + idx + 1])
    ELSE Raised("IndexError")

\* the first test of every accessor
not_in_map(heap_map, record_idx, field_idx) ==
    record_idx >= heap_map.record_count \/ field_idx < 1 \/ field_idx > heap_map.field_count

heap_get_word(heap_map, record_idx, field_idx) ==
    IF not_in_map(heap_map, record_idx, field_idx) THEN Got(0)
    ELSE IF heap_map.field_specs[field_idx].heap_field_type # WORD THEN Got(0)
    ELSE IF ~list_item(heap_map.records, record_idx).ok
    THEN list_item(heap_map.records, record_idx)
    ELSE Got(unpack_u16_le(file_read(list_item(heap_map.records, record_idx).value,
                                     heap_map.field_specs[field_idx].heap_offset, 2)))

heap_get_longint(heap_map, record_idx, field_idx) ==
    IF not_in_map(heap_map, record_idx, field_idx) THEN Got(0)
    ELSE IF heap_map.field_specs[field_idx].heap_field_type # LONGINT THEN Got(0)
    ELSE IF ~list_item(heap_map.records, record_idx).ok
    THEN list_item(heap_map.records, record_idx)
    ELSE Got(unpack_i32_le(file_read(list_item(heap_map.records, record_idx).value,
                                     heap_map.field_specs[field_idx].heap_offset, 4)))

heap_get_bitflag(heap_map, record_idx, field_idx) ==
    IF not_in_map(heap_map, record_idx, field_idx) THEN Got(FALSE)
    ELSE IF heap_map.field_specs[field_idx].heap_field_type # BITFLAGS THEN Got(FALSE)
    ELSE IF ~list_item(heap_map.records, record_idx).ok
    THEN list_item(heap_map.records, record_idx)
    ELSE Got(bit_and(list_item(heap_map.records, record_idx).value[
                         heap_map.field_specs[field_idx].heap_offset + 1],
                     heap_map.field_specs[field_idx].bit_mask) # 0)

heap_get_nibble(heap_map, record_idx, field_idx) ==
    IF not_in_map(heap_map, record_idx, field_idx) THEN Got(0)
    ELSE IF heap_map.field_specs[field_idx].heap_field_type # NIBBLE THEN Got(0)
    ELSE IF ~list_item(heap_map.records, record_idx).ok
    THEN list_item(heap_map.records, record_idx)
    ELSE LET byte_value == list_item(heap_map.records, record_idx).value[
                               heap_map.field_specs[field_idx].heap_offset + 1]
         IN IF heap_map.field_specs[field_idx].nibble_shift = 0
            THEN Got(byte_value % 16)
            ELSE Got((byte_value \div 16) % 16)

heap_get_byte(heap_map, record_idx, field_idx) ==
    IF not_in_map(heap_map, record_idx, field_idx) THEN Got(0)
    ELSE IF heap_map.field_specs[field_idx].heap_field_type # BYTE THEN Got(0)
    ELSE IF ~list_item(heap_map.records, record_idx).ok
    THEN list_item(heap_map.records, record_idx)
    ELSE Got(list_item(heap_map.records, record_idx).value[
                 heap_map.field_specs[field_idx].heap_offset + 1])

\* the accessor of a packed type
heap_get(heap_field_type, heap_map, record_idx, field_idx) ==
    IF heap_field_type = WORD THEN heap_get_word(heap_map, record_idx, field_idx)
    ELSE IF heap_field_type = LONGINT THEN heap_get_longint(heap_map, record_idx, field_idx)
    ELSE IF heap_field_type = BITFLAGS THEN heap_get_bitflag(heap_map, record_idx, field_idx)
    ELSE IF heap_field_type = NIBBLE THEN heap_get_nibble(heap_map, record_idx, field_idx)
    ELSE heap_get_byte(heap_map, record_idx, field_idx)

----------------------------------------------------------------------------
(* A heap map that a caller builds and reads *)

\* the specs a caller hands over: a WORD, a LONGINT of a date, a flag, a
\* NIBBLE and a BYTE of field 1
HeapSpecs ==
    { HeapFieldSpec(1, WORD, FALSE, 0, 0),
      HeapFieldSpec(1, LONGINT, TRUE, 0, 0),
      HeapFieldSpec(1, BITFLAGS, FALSE, 1, 0),
      HeapFieldSpec(1, NIBBLE, FALSE, 0, 0),
      HeapFieldSpec(1, BYTE, FALSE, 0, 0) }

\* field 1 of a record: 5, 70000, 2^31, -1, "7", "T", "20220825"
HeapValues ==
    { IntValue(5), IntValue(70000), BigValue(1), IntValue(-1),
      StrValue(<<55>>), StrValue(<<84>>),
      StrValue(<<50, 48, 50, 50, 48, 56, 50, 53>>) }

HeapRecordSizes == {8}

\* the records DBFRecord(1, ...), DBFRecord(2, ...) of a list of values
numbered_records(values) == [k \in 1..Len(values) |-> DBFRecord(k, <<values[k]>>)]

HeapRecordLists ==
    { numbered_records(values) : values \in SeqsUpTo(HeapValues, MaxHeapRecords) }

HeapTypes == {WORD, LONGINT, BITFLAGS, NIBBLE, BYTE}

HeapBuild(records, field_specs, target_record_size) ==
    /\ heap.built = None
    /\ heap' = [heap EXCEPT !.given = field_specs,
                            !.source = records,
                            !.target = target_record_size,
                            !.built = build_heap_map(records, field_specs,
                                                     target_record_size)]
    /\ UNCHANGED <<flt, qry, schema, opened>>
    /\ UNCHANGED laterVars
    /\ UNCHANGED <<outTable, ndxFile, ndxField, lastFind>>
    /\ UNCHANGED tableVars
    /\ UNCHANGED memoVars

HeapGet(heap_field_type, record_idx, field_idx) ==
    /\ heap.built # None
    /\ heap.built.returned.ok
    /\ heap' = [heap EXCEPT !.got = [heap_field_type |-> heap_field_type,
                                     record_idx |-> record_idx,
                                     field_idx |-> field_idx,
                                     result |-> heap_get(heap_field_type,
                                                         heap.built.returned.value,
                                                         record_idx, field_idx)]]
    /\ UNCHANGED <<flt, qry, schema, opened>>
    /\ UNCHANGED laterVars
    /\ UNCHANGED <<outTable, ndxFile, ndxField, lastFind>>
    /\ UNCHANGED tableVars
    /\ UNCHANGED memoVars

InitHeap ==
    /\ dbfFile = <<>>
    /\ hdr = None
    /\ filePos = 0
    /\ dbt = <<>>
    /\ nAppended = 0
    /\ lastOp = None
    /\ nOps = 0
    /\ headerHit = FALSE
    /\ prevFile = <<>>
    /\ memoLog = <<>>
    /\ pend = None
    /\ nCrash = 0
    /\ justWrote = FALSE
    /\ outTable = None
    /\ ndxFile = <<>>
    /\ ndxField = 0
    /\ lastFind = None
    /\ schema = None
    /\ opened = None
    /\ flt = None
    /\ qry = None
    /\ LaterIdle
    /\ heap = [given |-> <<>>, source |-> <<>>, target |-> 0, built |-> None,
               got |-> None]

NextHeap ==
    \/ \E records \in HeapRecordLists, target_record_size \in HeapRecordSizes :
          \E field_specs \in SeqsUpTo(HeapSpecs, MaxHeapFields) :
             HeapBuild(records, field_specs, target_record_size)
    \/ \E heap_field_type \in HeapTypes, record_idx \in (-1)..MaxHeapRecords :
          \E field_idx \in 0..(MaxHeapFields + 1) :
             HeapGet(heap_field_type, record_idx, field_idx)

SpecHeap == InitHeap /\ [][NextHeap]_vars

HeapBuilt == heap # None /\ heap.built # None

HeapRead == HeapBuilt /\ heap.got # None

\* the record index or the field index of the last read is out of range
OutOfRange ==
    \/ heap.got.record_idx \notin 0..(heap.built.returned.value.record_count - 1)
    \/ heap.got.field_idx \notin 1..heap.built.returned.value.field_count

\* the last read names a field of another packed type
TypeDiffers ==
    /\ heap.got.field_idx \in 1..heap.built.returned.value.field_count
    /\ heap.built.field_specs[heap.got.field_idx].heap_field_type
          # heap.got.heap_field_type

ZeroOf(heap_field_type) == IF heap_field_type = BITFLAGS THEN Got(FALSE) ELSE Got(0)

\* C16: an accessor returns 0 (False for the bit flag) and does not raise
\* when the record index or the field index is out of range, when the
\* field has another packed type, and when the layout was rejected
C16_AccessorsReturnZero ==
    (HeapRead /\ (OutOfRange \/ TypeDiffers \/ ~heap.built.accepted))
        => heap.got.result = ZeroOf(heap.got.heap_field_type)

\* the NIBBLE specs that end at spec k without another type between them
RECURSIVE NibbleRun(_, _)
NibbleRun(field_specs, k) ==
    IF k = 0 \/ field_specs[k].heap_field_type # NIBBLE THEN 0
    ELSE 1 + NibbleRun(field_specs, k - 1)

RoundUp(n, m) == ((n + m - 1) \div m) * m

\* where the greedy pack of the first k specs ends: a WORD on an even
\* offset, a LONGINT on a multiple of 4, a BITFLAGS in the byte of the
\* BITFLAGS before it, every second NIBBLE of a run in the byte of the first
RECURSIVE PackEnd(_, _)
PackEnd(field_specs, k) ==
    IF k = 0 THEN 0
    ELSE LET t == field_specs[k].heap_field_type
             e == PackEnd(field_specs, k - 1)
         IN IF t = WORD THEN RoundUp(e, 2) + 2
            ELSE IF t = LONGINT THEN RoundUp(e, 4) + 4
            ELSE IF t = BITFLAGS /\ k > 1 /\ field_specs[k - 1].heap_field_type = BITFLAGS
            THEN e
            ELSE IF t = NIBBLE /\ NibbleRun(field_specs, k - 1) % 2 = 1 THEN e
            ELSE e + 1

Fits(field_specs, record_size) ==
    RoundUp(PackEnd(field_specs, Len(field_specs)), 8) <= record_size

\* C17: the layout is accepted iff the greedy pack fits in record_size, and
\* a rejected layout leaves every field spec as the caller gave it
C17_LayoutAcceptedIffFitsAndTotal ==
    HeapBuilt => /\ heap.built.accepted <=> Fits(heap.given, heap.target)
                 /\ ~heap.built.accepted => heap.built.field_specs = heap.given

Clamp(n, low, high) == IF n < low THEN low ELSE IF n > high THEN high ELSE n

\* the source value of a spec, coerced: a date string to its day number
\* when the spec asks for it, a logical T/Y to 1 and anything else to 0,
\* a numeric string to its integer
Coerced(spec, record) ==
    LET value == rec_get_field(record, spec.dbf_field_idx)
    IN IF value.t # "str" THEN value.n
       ELSE IF spec.convert_to_jdn THEN dbf_date_str_to_jdn(value.s)
       ELSE IF spec.heap_field_type = BITFLAGS
       THEN (IF upper_str(value.s) \in { <<84>>, <<89>> } THEN 1 ELSE 0)
       ELSE IF int_of_str(value.s).ok THEN int_of_str(value.s).n
       ELSE 0

\* the coerced value in the range of the packed type
Expected(spec, record) ==
    IF spec.heap_field_type = WORD THEN Got(Clamp(Coerced(spec, record), 0, 65535))
    ELSE IF spec.heap_field_type = LONGINT
    THEN Got(Clamp(Coerced(spec, record), LONG_MIN, LONG_MAX))
    ELSE IF spec.heap_field_type = BITFLAGS THEN Got(Coerced(spec, record) # 0)
    ELSE IF spec.heap_field_type = NIBBLE THEN Got(Clamp(Coerced(spec, record), 0, 15))
    ELSE Got(Clamp(Coerced(spec, record), 0, 255))

\* C18: building does not raise, and after a build with an accepted layout
\* the accessor of a field's packed type returns the record's source value,
\* coerced and clamped to the range of the type
C18_AccessorReturnsCoercedValue ==
    /\ HeapBuilt => heap.built.returned.ok
    /\ (HeapRead /\ heap.built.accepted /\ ~OutOfRange /\ ~TypeDiffers)
          => heap.got.result
                = Expected(heap.built.field_specs[heap.got.field_idx],
                           heap.source[heap.got.record_idx + 1])

----------------------------------------------------------------------------
(* A table file that is damaged on disk and then opened                     *)

MaxDamage == 2      \* changes made to the file before it is opened

DBF_MAX_RECORD_SIZE == 4096

\* the file cut to n bytes
truncate(file, n) == SubSeq(file, 1, Min(n, Len(file)))

\* lengths a damaged file is cut to: inside the primary header, at its end,
\* inside the first descriptor and inside the second
CutLengths == {20, 29, 30, 31, 32, 33, 49, 50, 63, 81, 82}

\* version bytes that no dBase III, IV or V table carries
ForeignVersions == {0, 2, 6, 131}

\* record sizes beyond what a table can have
ForeignRecordSizes == {0, 4097, 65535}

OpenSchemas ==
    { <<>>,
      <<DBFColumn(FLD_ID, CH_N, 2, 0)>>,
      <<DBFColumn(FLD_ID, CH_N, 2, 0), DBFColumn(FLD_NAME, CH_C, 4, 0)>> }

\* the file is cut short
OpnTruncate(n) ==
    /\ nOps < MaxDamage
    /\ n < Len(dbfFile)
    /\ dbfFile' = truncate(dbfFile, n)
    /\ nOps' = nOps + 1
    /\ opn' = [opn EXCEPT !.result = None]
    /\ UNCHANGED <<hdr, filePos, nAppended, lastOp, prevFile, headerHit>>
    /\ UNCHANGED memoVars
    /\ UNCHANGED <<outTable, ndxFile, ndxField, lastFind, schema, opened>>
    /\ UNCHANGED <<flt, qry, heap, xfer, walk, bmp>>

\* another program writes its version byte at offset 0
OpnSetVersion(version) ==
    /\ nOps < MaxDamage
    /\ Len(dbfFile) >= 1
    /\ dbfFile' = file_write(dbfFile, 0, <<version>>)
    /\ nOps' = nOps + 1
    /\ opn' = [opn EXCEPT !.result = None]
    /\ UNCHANGED <<hdr, filePos, nAppended, lastOp, prevFile, headerHit>>
    /\ UNCHANGED memoVars
    /\ UNCHANGED <<outTable, ndxFile, ndxField, lastFind, schema, opened>>
    /\ UNCHANGED <<flt, qry, heap, xfer, walk, bmp>>

\* another program writes a record size at offsets 10 and 11
OpnSetRecordSize(record_size) ==
    /\ nOps < MaxDamage
    /\ Len(dbfFile) >= 12
    /\ dbfFile' = file_write(dbfFile, 10, pack_u16_le(record_size))
    /\ nOps' = nOps + 1
    /\ opn' = [opn EXCEPT !.result = None]
    /\ UNCHANGED <<hdr, filePos, nAppended, lastOp, prevFile, headerHit>>
    /\ UNCHANGED memoVars
    /\ UNCHANGED <<outTable, ndxFile, ndxField, lastFind, schema, opened>>
    /\ UNCHANGED <<flt, qry, heap, xfer, walk, bmp>>

\* the file is removed
OpnRemove ==
    /\ nOps < MaxDamage
    /\ opn.exists
    /\ dbfFile' = <<>>
    /\ nOps' = nOps + 1
    /\ opn' = [exists |-> FALSE, result |-> None]
    /\ UNCHANGED <<hdr, filePos, nAppended, lastOp, prevFile, headerHit>>
    /\ UNCHANGED memoVars
    /\ UNCHANGED <<outTable, ndxFile, ndxField, lastFind, schema, opened>>
    /\ UNCHANGED <<flt, qry, heap, xfer, walk, bmp>>

\* dbf_file_open of the file as it is on disk: a handle or an IOError
OpnOpen ==
    /\ opn.result = None
    /\ opn' = [opn EXCEPT !.result = dbf_file_open(dbfFile)]
    /\ UNCHANGED tableVars
    /\ UNCHANGED memoVars
    /\ UNCHANGED <<outTable, ndxFile, ndxField, lastFind, schema, opened>>
    /\ UNCHANGED <<flt, qry, heap, xfer, walk, bmp>>

\* a table fresh from dbf_file_create or dbf_file_create_dbase3, closed
InitOpen ==
    /\ \E fields \in OpenSchemas, dbase3 \in BOOLEAN :
          LET header == DBFHeader(0, fields)
              c == IF dbase3 THEN dbf_file_create_dbase3(header)
                   ELSE dbf_file_create(header)
          IN /\ dbfFile = c.file
             /\ hdr = c.header
             /\ filePos = c.pos
             /\ dbt = c.memo
    /\ opn = [exists |-> TRUE, result |-> None]
    /\ schema = None
    /\ opened = None
    /\ flt = None
    /\ qry = None
    /\ heap = None
    /\ xfer = None
    /\ walk = None
    /\ bmp = None
    /\ nAppended = 0
    /\ lastOp = None
    /\ nOps = 0
    /\ headerHit = FALSE
    /\ prevFile = dbfFile
    /\ memoLog = <<>>
    /\ pend = None
    /\ nCrash = 0
    /\ justWrote = FALSE
    /\ outTable = None
    /\ ndxFile = <<>>
    /\ ndxField = 0
    /\ lastFind = None

NextOpen ==
    \/ \E n \in CutLengths : OpnTruncate(n)
    \/ \E version \in ForeignVersions : OpnSetVersion(version)
    \/ \E record_size \in ForeignRecordSizes : OpnSetRecordSize(record_size)
    \/ OpnRemove
    \/ OpnOpen

SpecOpen == InitOpen /\ [][NextOpen]_vars

----------------------------------------------------------------------------
(* Properties of opening a damaged table *)

\* the file has no complete 32-byte primary header
HeaderTooShort(file) == Len(file) < 32

\* a descriptor block begins at pos (a byte that is not the terminator, below
\* the field limit) and the file ends before its 32 bytes do
RECURSIVE DescriptorTruncated(_, _, _)
DescriptorTruncated(file, pos, i) ==
    IF i >= DBF_MAX_FIELDS \/ Len(file) <= pos \/ file[pos + 1] = HDR_TERM THEN FALSE
    ELSE IF Len(file) < pos + 32 THEN TRUE
    ELSE DescriptorTruncated(file, pos + 32, i + 1)

\* the record size stored at offsets 10 and 11 is not one a table can have
RecordSizeOutOfRange(file) ==
    /\ Len(file) >= 12
    /\ unpack_u16_le(SubSeq(file, 11, 12)) \notin 1..DBF_MAX_RECORD_SIZE

VersionUnknown(file) == Len(file) >= 1 /\ file[1] \notin {3, 4, 5}

\* one of the defects for which the open must fail
Defective(exists, file) ==
    \/ ~exists
    \/ HeaderTooShort(file)
    \/ DescriptorTruncated(file, 32, 0)
    \/ RecordSizeOutOfRange(file)
    \/ VersionUnknown(file)

OpenTried == opn # None /\ opn.result # None

\* C21: dbf_file_open fails when the file is missing, when the header is
\* shorter than 32 bytes, when a field descriptor block is shorter than 32
\* bytes, when the record size is out of range and when the version byte is
\* outside {0x03, 0x04, 0x05}; it returns no open handle for such a file.
C21_DefectiveFileNotOpened ==
    (OpenTried /\ Defective(opn.exists, dbfFile)) => ~opn.result.ok

----------------------------------------------------------------------------
(* Queries over a table with tombstoned rows, with and without its index,   *)
(* and with filters on a field the table does not have                      *)

MaxFaultRows == 2     \* rows of the table that is queried
MaxFaultGroups == 2   \* groups of one query
MaxFaultFilters == 2  \* filters of one group

FLD_ZZ == <<90, 90>>                \* "ZZ", no field of the table

\* NAME LIKE "A%" through NAME.NDX, NUM = 1 and ZZ = 1 through the heap map
FaultFilters ==
    { Filter(FLD_NAME, OP_LIKE, Text(<<65>>), Number(0), TRUE),
      Filter(FLD_NUM, OP_EQUAL, Number(1), Number(0), FALSE),
      Filter(FLD_ZZ, OP_EQUAL, Number(1), Number(0), FALSE) }

FaultGroups ==
    { FilterGroup(operator, filters) :
        operator \in {GROUP_AND, GROUP_OR},
        filters \in { f \in SeqsUpTo(FaultFilters, MaxFaultFilters) :
                        /\ f # <<>>
                        /\ \A a, b \in 1..Len(f) : a # b => f[a] # f[b] } }

QfAppendRow(values) ==
    /\ qry.groups = <<>>
    /\ hdr.record_count < MaxFaultRows
    /\ NdxAppendRow(values)

\* dbf_file_set_row_deleted of the first row
QfSetRowDeleted ==
    /\ qry.groups = <<>>
    /\ hdr.record_count > 0
    /\ RowAt(dbfFile, hdr, 0)[1] # <<STAR>>
    /\ NdxSetRowDeleted(0)

QfCreateIndex ==
    /\ qry.groups = <<>>
    /\ hdr.record_count > 0
    /\ NdxCreateIndex(1)

\* DBFQuery(...).add_group(...): one more group of the query
QfAddGroup(group) ==
    /\ qry.result = None
    /\ Len(qry.groups) < MaxFaultGroups
    /\ qry' = [qry EXCEPT !.groups = Append(qry.groups, group)]
    /\ UNCHANGED <<flt, heap, schema, opened>>
    /\ UNCHANGED laterVars
    /\ UNCHANGED <<outTable, ndxFile, ndxField, lastFind>>
    /\ UNCHANGED tableVars
    /\ UNCHANGED memoVars

\* DBFQuery.execute, with NAME.NDX on disk or not
QfExecute ==
    /\ qry.result = None
    /\ qry' = [qry EXCEPT !.result = execute(qry.groups, dbfFile, ndxFile)]
    /\ UNCHANGED <<flt, heap, schema, opened>>
    /\ UNCHANGED laterVars
    /\ UNCHANGED <<outTable, ndxFile, ndxField, lastFind>>
    /\ UNCHANGED tableVars
    /\ UNCHANGED memoVars

NextQueryFaults ==
    \/ \E values \in QueryRows : QfAppendRow(values)
    \/ QfSetRowDeleted
    \/ QfCreateIndex
    \/ \E group \in FaultGroups : QfAddGroup(group)
    \/ QfExecute

SpecQueryFaults == InitQuery /\ [][NextQueryFaults]_vars

----------------------------------------------------------------------------
(* Properties of queries that meet a missing index, a missing field or a    *)
(* tombstoned row                                                           *)

\* some filter of the query is backed by the index file
HasIndexFilter(groups) ==
    \E i \in 1..Len(groups) : \E k \in 1..Len(groups[i].filters) :
        is_string_filter(groups[i].filters[k])

\* C22: when a query holds an index-backed filter and the NDX file does not
\* exist, execute fails as a whole; it returns no result list.
C22_MissingIndexFails ==
    (Executed /\ ndxFile = <<>> /\ HasIndexFilter(qry.groups)) => ~qry.result.ok

\* the filter names a field that the table does not have
names_missing_field(filter) == _find_field_index(hdr, filter.field_name) = -1

\* the group holds a filter on a field that the table does not have
holds_missing_field(group) ==
    \E k \in 1..Len(group.filters) : names_missing_field(group.filters[k])

\* the query in which every ANY group has lost its filters on missing fields
WithoutMissing(groups) ==
    [i \in 1..Len(groups) |->
        IF groups[i].operator = GROUP_OR
        THEN FilterGroup(GROUP_OR, SelectSeq(groups[i].filters, LAMBDA f : ~names_missing_field(f)))
        ELSE groups[i]]

\* what a query with filters on missing fields must return: nothing when an
\* ALL group holds one, and otherwise what the other filters select
MissingFieldResult(groups) ==
    IF \E i \in 1..Len(groups) : groups[i].operator = GROUP_AND /\ holds_missing_field(groups[i])
    THEN Returned(<<>>)
    ELSE execute(WithoutMissing(groups), dbfFile, ndxFile)

\* C23: a group that holds a filter on a field the table does not have
\* contributes nothing if it is an ANY group and excludes all records if it
\* is an ALL group.
C23_MissingFieldGroup ==
    (Executed /\ \E i \in 1..Len(qry.groups) : holds_missing_field(qry.groups[i]))
        => qry.result = MissingFieldResult(qry.groups)

\* the row with record number r is not tombstoned
Live(r) == RowAt(dbfFile, hdr, r - 1)[1] # <<STAR>>

\* C29: every record number r that execute returns satisfies
\* 1 <= r <= record count, and the row with record number r is live.
C29_NoTombstonedRecno ==
    (Executed /\ qry.result.ok)
        => \A k \in 1..Len(qry.result.recnos) :
              /\ qry.result.recnos[k] \in 1..hdr.record_count
              /\ Live(qry.result.recnos[k])

----------------------------------------------------------------------------
(* Text interchange: export_dbf_to_text, export_dbf_memos_to_text,          *)
(* import_dbf_from_text, import_dbf_memos_from_text_ex and                  *)
(* dbf_file_clear_memo_fields.  A str is a sequence of code points; a text  *)
(* file is the sequence of the bytes of its UTF-8 encoding.                 *)

PIPE == 124         \* '|'
LF == 10
CR == 13
REPLACEMENT == 65533  \* U+FFFD, what errors='replace' puts for a bad byte

\* str.encode('utf-8') of one character below U+10000
utf8_char(c) ==
    IF c < 128 THEN <<c>>
    ELSE IF c < 2048 THEN <<192 + (c \div 64), 128 + (c % 64)>>
    ELSE <<224 + (c \div 4096), 128 + ((c \div 64) % 64), 128 + (c % 64)>>

\* the text file as open(..., 'w', encoding='utf-8') writes it
RECURSIVE text_encode(_)
text_encode(text) ==
    IF text = <<>> THEN <<>> ELSE utf8_char(Head(text)) \o text_encode(Tail(text))

is_continuation(b) == b >= 128 /\ b <= 191

\* bytes.decode('utf-8', errors='replace'): sequences of one, two and three
\* bytes; a byte that begins no valid sequence becomes U+FFFD
RECURSIVE utf8_decode(_)
utf8_decode(data) ==
    IF data = <<>> THEN <<>>
    ELSE IF data[1] < 128 THEN <<data[1]>> \o utf8_decode(Tail(data))
    ELSE IF data[1] >= 194 /\ data[1] <= 223 /\ Len(data) >= 2 /\ is_continuation(data[2])
    THEN <<((data[1] - 192) * 64) + (data[2] - 128)>> \o utf8_decode(SubSeq(data, 3, Len(data)))
    ELSE IF /\ data[1] >= 225 /\ data[1] <= 239 /\ data[1] # 237 /\ Len(data) >= 3
            /\ is_continuation(data[2]) /\ is_continuation(data[3])
    THEN <<((data[1] - 224) * 4096) + ((data[2] - 128) * 64) + (data[3] - 128)>>
         \o utf8_decode(SubSeq(data, 4, Len(data)))
    ELSE <<REPLACEMENT>> \o utf8_decode(Tail(data))

\* dbf_file_read_row, lines 425-429: the flag and the fields as str
decoded_row(row) == [i \in 1..Len(row) |-> utf8_decode(row[i])]

\* sep.join(parts)
RECURSIVE join(_, _)
join(parts, sep) ==
    IF parts = <<>> THEN <<>>
    ELSE IF Len(parts) = 1 THEN parts[1]
    ELSE parts[1] \o <<sep>> \o join(Tail(parts), sep)

\* text.split(sep)
RECURSIVE split(_, _)
split(text, sep) ==
    LET at == find_byte(text, sep)
    IN IF at < 0 THEN <<text>>
       ELSE <<SubSeq(text, 1, at)>> \o split(SubSeq(text, at + 2, Len(text)), sep)

\* the text of a file opened in text mode: '\r\n' and '\r' read as '\n'
RECURSIVE universal_newlines(_)
universal_newlines(text) ==
    IF text = <<>> THEN <<>>
    ELSE IF text[1] = CR /\ Len(text) >= 2 /\ text[2] = LF
    THEN <<LF>> \o universal_newlines(SubSeq(text, 3, Len(text)))
    ELSE <<IF text[1] = CR THEN LF ELSE text[1]>> \o universal_newlines(Tail(text))

\* f.readlines() of a text file, each line without its '\n'
readlines(data) ==
    LET pieces == split(universal_newlines(utf8_decode(data)), LF)
    IN IF pieces[Len(pieces)] = <<>> THEN SubSeq(pieces, 1, Len(pieces) - 1) ELSE pieces

\* the lines of a text file as f.write(line + '\n') leaves them
RECURSIVE write_lines(_)
write_lines(lines) ==
    IF lines = <<>> THEN <<>>
    ELSE text_encode(Head(lines) \o <<LF>>) \o write_lines(Tail(lines))

hex_digit(n) == IF n < 10 THEN 48 + n ELSE 55 + n

\* bytes.hex().upper()
to_hex(data) ==
    [i \in 1..(2 * Len(data)) |->
        IF i % 2 = 1 THEN hex_digit(data[(i + 1) \div 2] \div 16)
        ELSE hex_digit(data[i \div 2] % 16)]

is_hex(c) == c \in (48..57) \cup (65..70) \cup (97..102)

hex_value(c) == IF c <= 57 THEN c - 48 ELSE IF c <= 70 THEN c - 55 ELSE c - 87

\* bytes.fromhex of a string without white space (ok = FALSE: ValueError)
from_hex(text) ==
    IF Len(text) % 2 = 1 \/ \E i \in 1..Len(text) : ~is_hex(text[i]) THEN [ok |-> FALSE]
    ELSE [ok |-> TRUE,
          data |-> [i \in 1..(Len(text) \div 2) |->
                      (16 * hex_value(text[(2 * i) - 1])) + hex_value(text[2 * i])]]

\* build_field_spec: 'C(30)' or 'N(10,2)'
build_field_spec(field) ==
    <<field.field_type, 40>> \o int_to_str(field.length)
    \o (IF field.decimals > 0 THEN <<44>> \o int_to_str(field.decimals) ELSE <<>>)
    \o <<41>>

\* parse_field_spec: (field_type, length, decimals), ('C', 1, 0) for a
\* spec it cannot read
parse_field_spec(spec_text) ==
    LET spec == strip(spec_text)
        dflt == [field_type |-> CH_C, length |-> 1, decimals |-> 0]
        paren_start == find_byte(spec, 40)
        paren_end == find_byte(spec, 41)
        content == SubSeq(spec, paren_start + 2, paren_end)
        parts == split(content, 44)
        length == int_of_str(parts[1])
        decimals == IF Len(parts) > 1 THEN int_of_str(parts[2]) ELSE [ok |-> TRUE, n |-> 0]
    IN IF Len(spec) < 3 THEN dflt
       ELSE IF paren_start = -1 \/ paren_end = -1 \/ paren_end <= paren_start + 1 THEN dflt
       ELSE IF ~length.ok \/ ~decimals.ok THEN dflt
       ELSE IF length.n <= 0 \/ length.n > 255 THEN dflt
       ELSE [field_type |-> upper(spec[1]), length |-> length.n, decimals |-> decimals.n]

\* export_dbf_to_text, lines 763-774: the lines of the live rows among the
\* first n rows
RECURSIVE export_rows(_, _, _)
export_rows(file, header, n) ==
    IF n = 0 THEN <<>>
    ELSE LET row == decoded_row(RowAt(file, header, n - 1))
         IN export_rows(file, header, n - 1)
            \o (IF row[1] = <<STAR>> THEN <<>>
                ELSE <<join([i \in 1..header.field_count |-> strip(row[i + 1])], PIPE)>>)

\* export_dbf_to_text: the bytes of the .TXT file
export_dbf_to_text(dbf) ==
    LET header == dbf_file_open(dbf).header
    IN write_lines(<<join([i \in 1..Len(header.fields) |-> header.fields[i].name], PIPE),
                     join([i \in 1..Len(header.fields) |-> build_field_spec(header.fields[i])], PIPE)>>
                   \o export_rows(dbf, header, header.record_count))

\* export_dbf_memos_to_text, lines 1335-1352: the line of one field of a
\* live row, or none (the pointers of these tables are decimal digits)
memo_line(dbf, memo, header, row, field_idx, export_row_index) ==
    LET memo_block_str == strip(row[field_idx + 1])
        memo_block == parse_digits(memo_block_str)
        info == dbf_memo_get_info(dbf, memo, memo_block)
        memo_data == dbf_memo_read_buffer(dbf, memo, memo_block, info[2])[2]
    IN IF upper(header.fields[field_idx].field_type) # CH_M THEN <<>>
       ELSE IF memo_block_str = <<>> \/ memo_block_str = <<CH_0>> THEN <<>>
       ELSE IF memo_block <= 0 \/ info[1] <= 0 THEN <<>>
       ELSE <<join(<<int_to_str(export_row_index), int_to_str(field_idx),
                     int_to_str(info[1]), int_to_str(memo_block), to_hex(memo_data)>>, PIPE)>>

RECURSIVE memo_lines_of_row(_, _, _, _, _, _)
memo_lines_of_row(dbf, memo, header, row, field_idx, export_row_index) ==
    IF field_idx = 0 THEN <<>>
    ELSE memo_lines_of_row(dbf, memo, header, row, field_idx - 1, export_row_index)
         \o memo_line(dbf, memo, header, row, field_idx, export_row_index)

\* the loop over the rows, lines 1326-1355: acc carries the lines so far
\* and export_row_index
RECURSIVE export_memo_rows(_, _, _, _, _)
export_memo_rows(dbf, memo, header, row_idx, acc) ==
    IF row_idx >= header.record_count THEN acc.lines
    ELSE LET row == decoded_row(RowAt(dbf, header, row_idx))
         IN IF row[1] = <<STAR>> THEN export_memo_rows(dbf, memo, header, row_idx + 1, acc)
            ELSE export_memo_rows(dbf, memo, header, row_idx + 1,
                    [lines |-> acc.lines \o memo_lines_of_row(dbf, memo, header, row,
                                                header.field_count, acc.export_row_index),
                     export_row_index |-> acc.export_row_index + 1])

\* export_dbf_memos_to_text: the bytes of the .MEM file
export_dbf_memos_to_text(dbf, memo) ==
    write_lines(export_memo_rows(dbf, memo, dbf_file_open(dbf).header, 0,
                                 [lines |-> <<>>, export_row_index |-> 0]))

\* row_buffer[offset + j] = ord(value[j]) of dbf_file_append_row and
\* dbf_file_write_row: a character above U+00FF is no byte (ValueError)
encodable(header, values) ==
    \A i \in 1..header.field_count :
        \A j \in 1..Min(Len(value_at(values, i)), header.fields[i].length) :
            value_at(values, i)[j] <= 255

strip_all(parts) == [i \in 1..Len(parts) |-> strip(parts[i])]

\* import_dbf_from_text, lines 823-840: the rows of lines k.. appended to the
\* new table; ok = FALSE once an append has raised
RECURSIVE import_rows(_, _, _)
import_rows(lines, k, acc) ==
    IF k > Len(lines) \/ ~acc.ok THEN acc
    ELSE IF strip(lines[k]) = <<>> THEN import_rows(lines, k + 1, acc)
    ELSE IF ~encodable(acc.header, strip_all(split(strip(lines[k]), PIPE)))
    THEN [acc EXCEPT !.ok = FALSE]
    ELSE import_rows(lines, k + 1,
            [acc EXCEPT
                !.file = dbf_file_append_row(acc.file, acc.header, strip_all(split(strip(lines[k]), PIPE))).file,
                !.header = dbf_file_append_row(acc.file, acc.header, strip_all(split(strip(lines[k]), PIPE))).header])

\* the header that import_dbf_from_text builds from the first two lines
imported_header(field_names, field_specs) ==
    [DBFHeader(0, [i \in 1..Len(field_names) |->
                     DBFColumn(SubSeq(field_names[i], 1, Min(11, Len(field_names[i]))),
                               parse_field_spec(field_specs[i]).field_type,
                               parse_field_spec(field_specs[i]).length,
                               parse_field_spec(field_specs[i]).decimals)])
        EXCEPT !.year = 126, !.month = 11, !.day = 6]

\* the table created from the header, before any row
imported_table(header) ==
    LET c == IF \E i \in 1..Len(header.fields) : header.fields[i].field_type = CH_M
             THEN dbf_file_create(header)
             ELSE dbf_file_create_dbase3(header)
    IN [ok |-> TRUE, file |-> c.file, header |-> c.header, memo |-> c.memo]

\* import_dbf_from_text of the bytes of a .TXT file: the new table file, the
\* header of its handle and its memo file (ok = FALSE: it raised)
import_dbf_from_text(data) ==
    LET lines == readlines(data)
    IN IF Len(lines) < 2 THEN [ok |-> FALSE, file |-> <<>>, header |-> None, memo |-> <<>>]
       ELSE IF Len(split(strip(lines[1]), PIPE)) # Len(split(strip(lines[2]), PIPE))
       THEN [ok |-> FALSE, file |-> <<>>, header |-> None, memo |-> <<>>]
       ELSE import_rows(lines, 3,
                imported_table(imported_header(strip_all(split(strip(lines[1]), PIPE)),
                                               strip_all(split(strip(lines[2]), PIPE)))))

\* str.encode('latin-1') of characters below U+0100
latin1_encode(text) == text

\* dbf_memo_write_at_block
dbf_memo_write_at_block(dbf, memo, memo_type, text, block_num) ==
    dbf_memo_write_buffer_at_block(dbf, memo, memo_type, latin1_encode(text), block_num)

\* import_dbf_memos_from_text_ex, lines 1413-1427: the memo written
write_imported_memo(dbf, memo, memo_type, memo_data, old_block_num, preserve_blocks) ==
    IF preserve_blocks
    THEN (IF memo_type = 1
          THEN dbf_memo_write_at_block(dbf, memo, memo_type, latin1_decode(memo_data), old_block_num)
          ELSE dbf_memo_write_buffer_at_block(dbf, memo, memo_type, memo_data, old_block_num))
    ELSE (IF memo_type = 1
          THEN dbf_memo_write(dbf, memo, memo_type, latin1_decode(memo_data))
          ELSE dbf_memo_write_buffer(dbf, memo, memo_type, memo_data))

\* dbf_file_set_field_str: the row with the field replaced
dbf_file_set_field_str(row, header, field_index, value) ==
    IF row = <<>> \/ field_index < 1 \/ field_index > header.field_count THEN row
    ELSE [row EXCEPT ![field_index + 1] = pad_value(value, header.fields[field_index].length)]

\* dbf_file_get_field_str
dbf_file_get_field_str(row, header, field_index) ==
    IF row = <<>> \/ field_index < 1 \/ field_index > header.field_count THEN <<>>
    ELSE row[field_index + 1]

\* the values list built from a row before dbf_file_write_row
values_of(row, header) ==
    [i \in 1..header.field_count |-> dbf_file_get_field_str(row, header, i)]

\* seek to the row, then dbf_file_write_row (ok = FALSE: ValueError, nothing
\* is written)
write_back(file, header, row_index, row) ==
    IF ~encodable(header, values_of(row, header)) THEN [ok |-> FALSE, file |-> file]
    ELSE [ok |-> TRUE,
          file |-> dbf_file_write_row(file, header, row_position(header, row_index),
                                      values_of(row, header)).file]

\* lines 1429-1440: the row's field set to the new block, the row written
update_memo_field(acc, header, row_index, field_idx, w) ==
    LET row == decoded_row(RowAt(acc.file, header, row_index))
        wb == write_back(acc.file, header, row_index,
                         dbf_file_set_field_str(row, header, field_idx, int_to_str(w.block)))
    IN [ok |-> wb.ok, file |-> wb.file, memo |-> w.memo]

\* one line of the .MEM file, lines 1393-1440
import_memo_line(line, acc, header, preserve_blocks) ==
    LET parts == split(strip(line), PIPE)
        row_index == int_of_str(parts[1])
        field_idx == int_of_str(parts[2])
        memo_type == int_of_str(parts[3])
        old_block_num == int_of_str(parts[4])
        memo_data == from_hex(parts[5])
    IN IF strip(line) = <<>> \/ Len(parts) < 5 THEN acc
       ELSE IF ~row_index.ok \/ ~field_idx.ok \/ ~memo_type.ok \/ ~old_block_num.ok \/ ~memo_data.ok
       THEN [acc EXCEPT !.ok = FALSE]
       ELSE update_memo_field(acc, header, row_index.n, field_idx.n,
                write_imported_memo(acc.file, acc.memo, memo_type.n, memo_data.data,
                                    old_block_num.n, preserve_blocks))

RECURSIVE import_memo_lines(_, _, _, _, _)
import_memo_lines(lines, k, acc, header, preserve_blocks) ==
    IF k > Len(lines) \/ ~acc.ok THEN acc
    ELSE import_memo_lines(lines, k + 1, import_memo_line(lines[k], acc, header, preserve_blocks),
                           header, preserve_blocks)

\* import_dbf_memos_from_text_ex of the bytes of a .MEM file into the table
\* dbf with the memo file memo (ok = FALSE: it raised)
import_dbf_memos_from_text_ex(dbf, memo, data, preserve_blocks) ==
    import_memo_lines(readlines(data), 1, [ok |-> TRUE, file |-> dbf, memo |-> memo],
                      dbf_file_open(dbf).header, preserve_blocks)

\* import_dbf_memos_from_text
import_dbf_memos_from_text(dbf, memo, data) ==
    import_dbf_memos_from_text_ex(dbf, memo, data, FALSE)

\* dbf_file_clear_memo_fields, lines 1561-1565: the row with '0' in every
\* memo field
RECURSIVE clear_fields(_, _, _)
clear_fields(row, header, field_idx) ==
    IF field_idx = 0 THEN row
    ELSE IF upper(header.fields[field_idx].field_type) = CH_M
    THEN dbf_file_set_field_str(clear_fields(row, header, field_idx - 1), header, field_idx, <<CH_0>>)
    ELSE clear_fields(row, header, field_idx - 1)

\* dbf_file_clear_memo_fields: the loop over the rows of the handle
RECURSIVE clear_rows(_, _, _)
clear_rows(acc, header, row_idx) ==
    IF row_idx >= header.record_count \/ ~acc.ok THEN acc
    ELSE clear_rows(write_back(acc.file, header, row_idx,
                        clear_fields(decoded_row(RowAt(acc.file, header, row_idx)), header, header.field_count)),
                    header, row_idx + 1)

dbf_file_clear_memo_fields(file, header) ==
    clear_rows([ok |-> TRUE, file |-> file], header, 0)

----------------------------------------------------------------------------
(* A table with memos that is filled, tombstoned, exported to text and      *)
(* imported into a fresh table                                              *)

\* the tables with a memo field: dBase IV and dBase III
TransferSchemas == { header \in CompactSchemas : has_memo_field(header) }

\* the rows the application adds, <<values, memo_type, payload>>: the texts
\* "Hi" and U+00E9, a binary memo, no memo (type 0), and the name "é" as
\* one Latin-1 byte
TransferRows ==
    { <<<<<<49>>, <<65, 66>>>>, 1, <<72, 105>>>>,
      <<<<<<32, 55>>, <<67>>>>, 1, <<233>>>>,
      <<<<<<50>>, <<68>>>>, 2, <<0, 255>>>>,
      <<<<<<32, 56>>, <<69, 70>>>>, 0, <<>>>>,
      <<<<<<51>>, <<233>>>>, 0, <<>>>> }

\* nothing was exported, cleared or restored yet: the table can change
XfBuilding ==
    /\ xfer.txt = None
    /\ xfer.mem = None
    /\ xfer.cleared = None
    /\ xfer.restored = None

XfAppendRow(values, memo_type, data) ==
    /\ XfBuilding
    /\ CmpAppendRow(values, memo_type, data)

XfSetRowDeleted(row_index, deleted) ==
    /\ XfBuilding
    /\ CmpSetRowDeleted(row_index, deleted)

\* dbf_file_clear_memo_fields on the open handle of the table
XfClearMemoFields ==
    /\ XfBuilding
    /\ LET r == dbf_file_clear_memo_fields(dbfFile, hdr)
       IN /\ dbfFile' = r.file
          /\ xfer' = [xfer EXCEPT !.cleared = [ok |-> r.ok, before |-> dbfFile]]
    /\ UNCHANGED <<hdr, filePos, nAppended, lastOp, nOps, prevFile, headerHit>>
    /\ UNCHANGED memoVars
    /\ UNCHANGED <<outTable, ndxFile, ndxField, lastFind, schema, opened>>
    /\ UNCHANGED <<flt, qry, heap, opn, walk, bmp>>

\* export_dbf_to_text: the .TXT file
XfExportText ==
    /\ xfer.txt = None
    /\ xfer.restored = None
    /\ xfer' = [xfer EXCEPT !.txt = export_dbf_to_text(dbfFile)]
    /\ UNCHANGED tableVars
    /\ UNCHANGED memoVars
    /\ UNCHANGED <<outTable, ndxFile, ndxField, lastFind, schema, opened>>
    /\ UNCHANGED <<flt, qry, heap, opn, walk, bmp>>

\* export_dbf_memos_to_text: the .MEM file
XfExportMemos ==
    /\ xfer.mem = None
    /\ xfer.restored = None
    /\ xfer' = [xfer EXCEPT !.mem = export_dbf_memos_to_text(dbfFile, dbt)]
    /\ UNCHANGED tableVars
    /\ UNCHANGED memoVars
    /\ UNCHANGED <<outTable, ndxFile, ndxField, lastFind, schema, opened>>
    /\ UNCHANGED <<flt, qry, heap, opn, walk, bmp>>

\* import_dbf_from_text of the .TXT file under a new name
XfImportText ==
    /\ xfer.txt # None
    /\ xfer.table = None
    /\ xfer.restored = None
    /\ xfer' = [xfer EXCEPT !.table = import_dbf_from_text(xfer.txt)]
    /\ UNCHANGED tableVars
    /\ UNCHANGED memoVars
    /\ UNCHANGED <<outTable, ndxFile, ndxField, lastFind, schema, opened>>
    /\ UNCHANGED <<flt, qry, heap, opn, walk, bmp>>

\* import_dbf_memos_from_text (preserve_blocks = FALSE) or
\* import_dbf_memos_from_text_ex of the .MEM file into the new table
XfImportMemos(preserve_blocks) ==
    /\ xfer.mem # None
    /\ xfer.table # None
    /\ xfer.table.ok
    /\ xfer.memos = None
    /\ xfer.restored = None
    /\ LET r == import_dbf_memos_from_text_ex(xfer.table.file, xfer.table.memo,
                                              xfer.mem, preserve_blocks)
       IN xfer' = [xfer EXCEPT !.memos = [ok |-> r.ok, file |-> r.file, memo |-> r.memo,
                                          preserve_blocks |-> preserve_blocks]]
    /\ UNCHANGED tableVars
    /\ UNCHANGED memoVars
    /\ UNCHANGED <<outTable, ndxFile, ndxField, lastFind, schema, opened>>
    /\ UNCHANGED <<flt, qry, heap, opn, walk, bmp>>

\* import_dbf_memos_from_text_ex of the .MEM file into the table it was
\* exported from
XfRestoreMemos(preserve_blocks) ==
    /\ xfer.mem # None
    /\ xfer.memos = None
    /\ xfer.restored = None
    /\ dbt # <<>>
    /\ LET r == import_dbf_memos_from_text_ex(dbfFile, dbt, xfer.mem, preserve_blocks)
       IN /\ dbfFile' = r.file
          /\ dbt' = r.memo
          /\ xfer' = [xfer EXCEPT !.restored = [ok |-> r.ok, before |-> dbfFile]]
    /\ UNCHANGED <<hdr, filePos, nAppended, lastOp, nOps, prevFile, headerHit>>
    /\ UNCHANGED <<memoLog, pend, nCrash, justWrote>>
    /\ UNCHANGED <<outTable, ndxFile, ndxField, lastFind, schema, opened>>
    /\ UNCHANGED <<flt, qry, heap, opn, walk, bmp>>

InitTransfer ==
    /\ \E header \in TransferSchemas :
          LET c == create_table(header)
          IN /\ dbfFile = c.file
             /\ hdr = c.header
             /\ filePos = c.pos
             /\ dbt = c.memo
    /\ xfer = [txt |-> None, mem |-> None, table |-> None, memos |-> None,
               cleared |-> None, restored |-> None]
    /\ nAppended = 0
    /\ lastOp = None
    /\ nOps = 0
    /\ headerHit = FALSE
    /\ prevFile = dbfFile
    /\ memoLog = <<>>
    /\ pend = None
    /\ nCrash = 0
    /\ justWrote = FALSE
    /\ outTable = None
    /\ ndxFile = <<>>
    /\ ndxField = 0
    /\ lastFind = None
    /\ schema = None
    /\ opened = None
    /\ flt = None
    /\ qry = None
    /\ heap = None
    /\ opn = None
    /\ walk = None
    /\ bmp = None

NextTransfer ==
    \/ \E row \in TransferRows : XfAppendRow(row[1], row[2], row[3])
    \/ \E row_index \in 0..(hdr.record_count - 1), deleted \in BOOLEAN :
          XfSetRowDeleted(row_index, deleted)
    \/ XfClearMemoFields
    \/ XfExportText
    \/ XfExportMemos
    \/ XfImportText
    \/ \E preserve_blocks \in BOOLEAN : XfImportMemos(preserve_blocks)
    \/ \E preserve_blocks \in BOOLEAN : XfRestoreMemos(preserve_blocks)

SpecTransfer == InitTransfer /\ [][NextTransfer]_vars

----------------------------------------------------------------------------
(* Properties of the text export and import *)

\* the text import has raised, or both imports have run
TransferDone ==
    /\ xfer # None
    /\ xfer.table # None
    /\ ~xfer.table.ok \/ xfer.memos # None

\* the live rows of the exported table, as stored
SourceLive == live_rows(dbfFile, hdr, hdr.record_count)

\* the header of the table the two imports produced
TargetHeader == dbf_file_open(xfer.memos.file).header

\* what field i of a row stands for: its trimmed text, or the memo type and
\* the payload its memo pointer resolves to
typed_meaning(dbf, memo, header, row, i) ==
    LET text == strip(row[i + 1])
        got == memo_resolve(dbf, memo, parse_digits(text))
    IN IF upper(header.fields[i].field_type) # CH_M
       THEN [memo_type |-> -1, data |-> text]
       ELSE IF ~is_digits(text) \/ parse_digits(text) = 0 \/ got.memo_type = 0
       THEN [memo_type |-> 0, data |-> <<>>]
       ELSE [memo_type |-> got.memo_type, data |-> got.data]

\* both imports ran to their end
TransferSucceeds == xfer.table.ok /\ xfer.memos # None /\ xfer.memos.ok

\* as many rows as live rows, none tombstoned
TransferRowCount ==
    /\ dbf_file_open(xfer.memos.file).ok
    /\ TargetHeader.field_count = hdr.field_count
    /\ TargetHeader.record_count = Len(SourceLive)
    /\ CountInFile(xfer.memos.file) = Len(SourceLive)
    /\ \A k \in 1..Len(SourceLive) :
          RowAt(xfer.memos.file, TargetHeader, k - 1)[1] = <<SP>>

\* the i-th row carries the field values of the i-th live row
TransferFieldsKept ==
    \A k \in 1..Len(SourceLive) : \A i \in 1..hdr.field_count :
        upper(hdr.fields[i].field_type) # CH_M
        => typed_meaning(xfer.memos.file, xfer.memos.memo, TargetHeader,
                         RowAt(xfer.memos.file, TargetHeader, k - 1), i)
           = typed_meaning(dbfFile, dbt, hdr, SourceLive[k], i)

\* the memo fields resolve to the same payloads and memo types
TransferMemosKept ==
    \A k \in 1..Len(SourceLive) : \A i \in 1..hdr.field_count :
        upper(hdr.fields[i].field_type) = CH_M
        => typed_meaning(xfer.memos.file, xfer.memos.memo, TargetHeader,
                         RowAt(xfer.memos.file, TargetHeader, k - 1), i)
           = typed_meaning(dbfFile, dbt, hdr, SourceLive[k], i)

\* <<row_index, field_idx, block>> of one line of the .MEM file
mem_ref(line) ==
    LET parts == split(line, PIPE)
    IN <<int_of_str(parts[1]).n, int_of_str(parts[2]).n, int_of_str(parts[4]).n>>

MemRefs == { mem_ref(readlines(xfer.mem)[j]) : j \in 1..Len(readlines(xfer.mem)) }

\* the memos of the live rows: <<index among the live rows, field, block>>
LiveRefs ==
    { <<k - 1, i, parse_digits(strip(SourceLive[k][i + 1]))>> :
        <<k, i>> \in { p \in (1..Len(SourceLive)) \X (1..hdr.field_count) :
                         typed_meaning(dbfFile, dbt, hdr, SourceLive[p[1]], p[2]).memo_type > 0 } }

TransferRowIndexLive ==
    /\ MemRefs = LiveRefs
    /\ Cardinality(MemRefs) = Len(readlines(xfer.mem))

\* C24: a table with memo fields and any set of tombstoned rows, exported
\* with export_dbf_to_text and export_dbf_memos_to_text and imported into a
\* fresh table with import_dbf_from_text and either memo import, yields a
\* table whose i-th row is the i-th live row of the original and whose memo
\* fields resolve to the same payloads and memo types; the row_index of a
\* memo line is the row's index among the live rows.
C24_TransferPreserves ==
    /\ TransferDone
       => /\ TransferSucceeds
          /\ TransferRowCount
          /\ TransferFieldsKept
          /\ TransferMemosKept
    /\ xfer # None /\ xfer.mem # None /\ xfer.restored = None => TransferRowIndexLive

\* a table was exported and imported whole, with a tombstoned row left out
\* and a memo carried over
C24_Witness ==
    /\ TransferDone
    /\ TransferSucceeds
    /\ Len(SourceLive) < hdr.record_count
    /\ LiveRefs # {}

\* the delete flags of the rows are the same in both files
FlagsKept(before, after, header) ==
    \A row_index \in 0..(header.record_count - 1) :
        RowAt(after, header, row_index)[1] = RowAt(before, header, row_index)[1]

\* the bytes of the fields that are no memo fields are the same in both files
FieldsKept(before, after, header) ==
    \A row_index \in 0..(header.record_count - 1) : \A i \in 1..header.field_count :
        upper(header.fields[i].field_type) # CH_M
        => RowAt(after, header, row_index)[i + 1] = RowAt(before, header, row_index)[i + 1]

CountKept(before, after) ==
    /\ CountInFile(after) = CountInFile(before)
    /\ Len(after) = Len(before)

\* the table file before the last clearing or restoring call on the table
RewrittenFrom ==
    IF xfer.restored # None THEN xfer.restored.before ELSE xfer.cleared.before

MemoRewriteDone == xfer # None /\ (xfer.cleared # None \/ xfer.restored # None)

\* C28: dbf_file_clear_memo_fields and import_dbf_memos_from_text_ex leave
\* the delete flag and every non-memo field value of every row, and the
\* record count, as they were before the call.
C28_MemoRewriteFrame ==
    MemoRewriteDone
    => /\ FlagsKept(RewrittenFrom, dbfFile, hdr)
       /\ FieldsKept(RewrittenFrom, dbfFile, hdr)
       /\ CountKept(RewrittenFrom, dbfFile)

----------------------------------------------------------------------------
(* A cursor over an index file: one descent from the root, then repeated   *)
(* calls of _next_entry.  The file is written by _write_ndx_file or comes  *)
(* from another writer.                                                     *)

MaxWalkEntries == 31    \* entries of the largest index that is built
MaxWalkCalls == 33      \* calls of _next_entry on one cursor

KEY_LEN_WIDE == 80      \* the widest character key, NDX_MAX_KEY_LEN

\* "K" and two digits
walk_key(n) == <<75, 48 + (n \div 10), 48 + (n % 10)>>

\* the entries ndx_create_index collects from n rows of a C(80) field: the
\* keys fall from row to row and every key but the last is held by two rows
built_entries(n) ==
    [i \in 1..n |-> [key |-> _normalize_key(walk_key((n - i) \div 2), KEY_LEN_WIDE),
                     recno |-> i]]

\* the index file ndx_create_index writes for these rows
built_file(n) ==
    _write_ndx_file(built_entries(n), KEY_LEN_WIDE,
                    (NDX_BLOCK_SIZE - 8) \div (KEY_LEN_WIDE + 8), KEY_LEN_WIDE + 8,
                    lower_str(FLD_WIDE))

\* no entry, one leaf, two leaves, and seven leaves under two parents
BuiltSizes == {0, 1, 6, MaxWalkEntries}

\* an index file of another writer: keys of two bytes, two keys per node;
\* the nodes are written at blocks 1, 2, ...
RECURSIVE foreign_nodes(_, _, _)
foreign_nodes(f, nodes, block) ==
    IF block > Len(nodes) THEN f
    ELSE foreign_nodes(file_write(f, block * NDX_BLOCK_SIZE,
                                  node_buffer(nodes[block].groups, nodes[block].last_child, 12)),
                       nodes, block + 1)

foreign_file(root_block, nodes) ==
    foreign_nodes(_write_header(<<>>, root_block, Len(nodes) + 1, 2, 2, 12, <<107>>),
                  nodes, 1)

leaf_group(key, recno) == [child |-> 0, recno |-> recno, key |-> key]
child_group(key, child) == [child |-> child, recno |-> 0, key |-> key]

ForeignFiles ==
    { \* a root over two leaves
      foreign_file(3, << [groups |-> <<leaf_group(<<65, 65>>, 1), leaf_group(<<66, 66>>, 2)>>,
                          last_child |-> 0],
                         [groups |-> <<leaf_group(<<67, 67>>, 3)>>, last_child |-> 0],
                         [groups |-> <<child_group(<<66, 66>>, 1)>>, last_child |-> 2] >>),
      \* the last child of the root is a parent without keys
      foreign_file(4, << [groups |-> <<leaf_group(<<65, 65>>, 1), leaf_group(<<66, 66>>, 2)>>,
                          last_child |-> 0],
                         [groups |-> <<leaf_group(<<67, 67>>, 3)>>, last_child |-> 0],
                         [groups |-> <<>>, last_child |-> 2],
                         [groups |-> <<child_group(<<66, 66>>, 1)>>, last_child |-> 3] >>),
      \* a root that holds an entry of its own and a last child
      foreign_file(2, << [groups |-> <<leaf_group(<<67, 67>>, 3)>>, last_child |-> 0],
                         [groups |-> <<leaf_group(<<65, 65>>, 1)>>, last_child |-> 1] >>),
      \* a root whose first child is the root
      foreign_file(1, << [groups |-> <<child_group(<<66, 66>>, 1)>>, last_child |-> 0] >>),
      \* two nodes that are each other's first child
      foreign_file(1, << [groups |-> <<child_group(<<66, 66>>, 2)>>, last_child |-> 0],
                         [groups |-> <<child_group(<<66, 66>>, 1)>>, last_child |-> 0] >>),
      \* a child pointer past the end of the file
      foreign_file(1, << [groups |-> <<child_group(<<66, 66>>, 7)>>, last_child |-> 0] >>) }

\* the keys a search descends to: the smallest key, and keys inside
WalkKeys == { <<>>, <<66, 66>>, <<67>>, walk_key(7) }
WalkNumbers == { 0, 1 }

\* the nodes a descent reads: one per turn of its loop
RECURSIVE reads_first_ge(_, _, _, _, _)
reads_first_ge(file, header, key_norm, block, depth) ==
    IF ~descent_continues(block, depth) THEN 0
    ELSE LET node == ndx_read_node(file, block, header)
         IN IF ~node.ok THEN 1
            ELSE IF ndx_is_leaf_node(node) THEN 1
            ELSE LET next_idx ==
                         first_in({i \in 0..(node.num_keys - 1) :
                                     _compare_keys(key_norm, node.keys[i + 1],
                                                   header.key_len) <= 0},
                                  node.num_keys)
                 IN 1 + reads_first_ge(file, header, key_norm,
                                       IF next_idx < node.num_keys
                                       THEN node.childs[next_idx + 1]
                                       ELSE node.last_child,
                                       depth + 1)

RECURSIVE reads_first_ge_number(_, _, _, _, _)
reads_first_ge_number(file, header, target, block, depth) ==
    IF ~descent_continues(block, depth) THEN 0
    ELSE LET node == ndx_read_node(file, block, header)
         IN IF ~node.ok THEN 1
            ELSE IF ndx_is_leaf_node(node) THEN 1
            ELSE LET next_idx ==
                         first_in({i \in 0..(node.num_keys - 1) :
                                     _compare_key8(target,
                                         _key_str_to_key8(node.keys[i + 1])) <= 0},
                                  node.num_keys)
                 IN 1 + reads_first_ge_number(file, header, target,
                                              IF next_idx < node.num_keys
                                              THEN node.childs[next_idx + 1]
                                              ELSE node.last_child,
                                              depth + 1)

WalkHeader == ndx_read_header(ndxFile)

\* _descend_to_first_ge for a search key, as ndx_find_exact calls it
WkDescendFirstGe(search_key) ==
    /\ walk.cur = None
    /\ walk' = [walk EXCEPT
          !.start = "key",
          !.search_key = search_key,
          !.cur = _descend_to_first_ge(ndxFile, WalkHeader,
                                       _normalize_key(search_key, WalkHeader.key_len)),
          !.reads = reads_first_ge(ndxFile, WalkHeader,
                                   _normalize_key(search_key, WalkHeader.key_len),
                                   WalkHeader.root_block, 0)]
    /\ UNCHANGED tableVars
    /\ UNCHANGED memoVars
    /\ UNCHANGED <<outTable, ndxFile, ndxField, lastFind, schema, opened>>
    /\ UNCHANGED <<flt, qry, heap, opn, xfer, bmp>>

\* _descend_to_first_ge_number for a number, as ndx_find_number_exact calls it
WkDescendFirstGeNumber(value) ==
    /\ walk.cur = None
    /\ walk' = [walk EXCEPT
          !.start = "number",
          !.cur = _descend_to_first_ge_number(ndxFile, WalkHeader, _make_key8_from_int(value)),
          !.reads = reads_first_ge_number(ndxFile, WalkHeader, _make_key8_from_int(value),
                                          WalkHeader.root_block, 0)]
    /\ UNCHANGED tableVars
    /\ UNCHANGED memoVars
    /\ UNCHANGED <<outTable, ndxFile, ndxField, lastFind, schema, opened>>
    /\ UNCHANGED <<flt, qry, heap, opn, xfer, bmp>>

\* one call of _next_entry on the cursor
WkNextEntry ==
    /\ walk.cur # None
    /\ ~walk.exhausted
    /\ walk.calls < MaxWalkCalls
    /\ LET e == _next_entry(ndxFile, WalkHeader, walk.cur)
       IN walk' = [walk EXCEPT
             !.cur = e.cur,
             !.calls = walk.calls + 1,
             !.exhausted = ~e.success,
             !.emitted = IF e.success
                         THEN Append(walk.emitted, [key |-> e.key, recno |-> e.recno])
                         ELSE walk.emitted,
             !.from = IF e.success THEN e.cur.stack[e.cur.depth] ELSE 0]
    /\ UNCHANGED tableVars
    /\ UNCHANGED memoVars
    /\ UNCHANGED <<outTable, ndxFile, ndxField, lastFind, schema, opened>>
    /\ UNCHANGED <<flt, qry, heap, opn, xfer, bmp>>

InitWalk ==
    /\ \E built \in BOOLEAN :
          /\ ndxFile \in IF built THEN { built_file(n) : n \in BuiltSizes } ELSE ForeignFiles
          /\ walk = [built |-> built, start |-> "none", search_key |-> <<>>, cur |-> None,
                     reads |-> 0, calls |-> 0, exhausted |-> FALSE, emitted |-> <<>>,
                     from |-> 0]
    /\ dbfFile = <<>>
    /\ hdr = None
    /\ filePos = 0
    /\ dbt = <<>>
    /\ nAppended = 0
    /\ lastOp = None
    /\ nOps = 0
    /\ headerHit = FALSE
    /\ prevFile = <<>>
    /\ memoLog = <<>>
    /\ pend = None
    /\ nCrash = 0
    /\ justWrote = FALSE
    /\ outTable = None
    /\ ndxField = 0
    /\ lastFind = None
    /\ schema = None
    /\ opened = None
    /\ flt = None
    /\ qry = None
    /\ heap = None
    /\ opn = None
    /\ xfer = None
    /\ bmp = None

NextWalk ==
    \/ \E search_key \in WalkKeys : WkDescendFirstGe(search_key)
    \/ \E value \in WalkNumbers : WkDescendFirstGeNumber(value)
    \/ WkNextEntry

SpecWalk == InitWalk /\ [][NextWalk]_vars

----------------------------------------------------------------------------
(* Properties of the cursor *)

\* every child pointer of the node, last_child included, is zero
has_no_children(node) ==
    /\ \A i \in 1..Len(node.childs) : node.childs[i] = 0
    /\ node.last_child = 0

\* the blocks of the index file that hold nodes
NodeBlocks == 1..((Len(ndxFile) \div NDX_BLOCK_SIZE) - 1)

WalkNode(block) == ndx_read_node(ndxFile, block, WalkHeader)

Descended == walk # None /\ walk.cur # None

\* ndx_is_leaf_node says leaf exactly of the nodes without a child pointer
LeafIffNoChildren ==
    \A block \in NodeBlocks : ndx_is_leaf_node(WalkNode(block)) <=> has_no_children(WalkNode(block))

\* an entry is only taken from a node without a child pointer
EmittedFromLeaf == walk.from # 0 => has_no_children(WalkNode(walk.from))

\* C25: ndx_is_leaf_node classifies a node as a leaf iff every child pointer
\* of the node, last_child included, is zero; descent and iteration treat a
\* node with a non-zero child pointer as an internal node.
C25_LeafIffNoChildPointer ==
    Descended => LeafIffNoChildren /\ EmittedFromLeaf

\* the node at block is the root of a tree: every node below it is a leaf
\* or has all its children at lower blocks
RECURSIVE proper_tree(_, _, _)
proper_tree(file, header, block) ==
    LET node == ndx_read_node(file, block, header)
    IN /\ node.ok
       /\ \/ has_no_children(node)
          \/ /\ \A i \in 1..node.num_keys :
                   /\ node.childs[i] \in 1..(block - 1)
                   /\ proper_tree(file, header, node.childs[i])
             /\ node.last_child \in 1..(block - 1)
             /\ proper_tree(file, header, node.last_child)

\* the entries of the leaves below block, from left to right
RECURSIVE below(_, _, _, _)
RECURSIVE tree_entries(_, _, _)
tree_entries(file, header, block) ==
    LET node == ndx_read_node(file, block, header)
    IN IF has_no_children(node)
       THEN [i \in 1..node.num_keys |-> [key |-> node.keys[i], recno |-> node.recnos[i]]]
       ELSE below(file, header, node, node.num_keys)
            \o tree_entries(file, header, node.last_child)

\* the entries below the first n children of a node
below(file, header, node, n) ==
    IF n = 0 THEN <<>>
    ELSE below(file, header, node, n - 1) \o tree_entries(file, header, node.childs[n])

ProperIndex == WalkHeader.root_block = 0 \/ proper_tree(ndxFile, WalkHeader, WalkHeader.root_block)

TreeEntries ==
    IF WalkHeader.root_block = 0 THEN <<>>
    ELSE tree_entries(ndxFile, WalkHeader, WalkHeader.root_block)

\* keys never fall, and equal keys stand in the order of their rows
InLeafOrder(entries) ==
    \A i \in 1..(Len(entries) - 1) :
        \/ str_lt(entries[i].key, entries[i + 1].key)
        \/ entries[i].key = entries[i + 1].key /\ entries[i].recno < entries[i + 1].recno

\* the cursor was set by a descent to the smallest key of a proper index
FromSmallest ==
    /\ Descended
    /\ walk.start = "key"
    /\ walk.search_key = <<>>
    /\ ProperIndex

\* C26: from a descent to the smallest key, repeated calls of _next_entry
\* emit every leaf entry of the tree exactly once, in leaf order, and then
\* report exhaustion; no entry is skipped or repeated on the way.
C26_WalkEmitsEveryEntry ==
    FromSmallest
    => /\ Len(walk.emitted) <= Len(TreeEntries)
       /\ walk.emitted = SubSeq(TreeEntries, 1, Len(walk.emitted))
       /\ walk.exhausted => Len(walk.emitted) = Len(TreeEntries)
       /\ walk.built => InLeafOrder(TreeEntries)

\* C27: a descent reads at most 20 nodes, and the cursor never holds more
\* than 20 levels, after the descent and after every call of _next_entry,
\* whatever the file holds.
C27_DescentBounded ==
    Descended
    => /\ walk.reads <= 20
       /\ walk.cur.depth <= 20
       /\ Len(walk.cur.stack) <= 20
       /\ Len(walk.cur.stack_idx) <= 20

\* a descent through a cycle has gone 20 levels down, and _next_entry was
\* called on its cursor
C27_Witness ==
    /\ Descended
    /\ walk.reads = 20
    /\ walk.calls > 0

----------------------------------------------------------------------------
(* One Bitmap under its calls *)

MaxBitmapSize == 4      \* records of the table the bitmap is created for

\* Bitmap.set_bit, Bitmap.clear_bit, Bitmap.get_bit, Bitmap.clear_all on the
\* bits of a bitmap of that size
set_bit(bits, size, rec_no) ==
    IF 0 <= rec_no /\ rec_no < size THEN bits \cup {rec_no} ELSE bits

clear_bit(bits, rec_no) == bits \ {rec_no}

get_bit(bits, rec_no) == rec_no \in bits

clear_all == {}

\* the numbers a caller passes: the record numbers 1..size, and 0, -1 and
\* size + 1
BitNumbers == (-1)..(MaxBitmapSize + 1)

BmSetBit(rec_no) ==
    /\ bmp' = [bmp EXCEPT !.bits = set_bit(bmp.bits, bmp.size, rec_no),
                          !.op = "set_bit", !.rec_no = rec_no]
    /\ UNCHANGED tableVars
    /\ UNCHANGED memoVars
    /\ UNCHANGED <<outTable, ndxFile, ndxField, lastFind, schema, opened>>
    /\ UNCHANGED <<flt, qry, heap, opn, xfer, walk>>

BmClearBit(rec_no) ==
    /\ bmp' = [bmp EXCEPT !.bits = clear_bit(bmp.bits, rec_no),
                          !.op = "clear_bit", !.rec_no = rec_no]
    /\ UNCHANGED tableVars
    /\ UNCHANGED memoVars
    /\ UNCHANGED <<outTable, ndxFile, ndxField, lastFind, schema, opened>>
    /\ UNCHANGED <<flt, qry, heap, opn, xfer, walk>>

BmSetAll ==
    /\ bmp' = [bmp EXCEPT !.bits = set_all(bmp.size), !.op = "set_all", !.rec_no = 0]
    /\ UNCHANGED tableVars
    /\ UNCHANGED memoVars
    /\ UNCHANGED <<outTable, ndxFile, ndxField, lastFind, schema, opened>>
    /\ UNCHANGED <<flt, qry, heap, opn, xfer, walk>>

BmClearAll ==
    /\ bmp' = [bmp EXCEPT !.bits = clear_all, !.op = "clear_all", !.rec_no = 0]
    /\ UNCHANGED tableVars
    /\ UNCHANGED memoVars
    /\ UNCHANGED <<outTable, ndxFile, ndxField, lastFind, schema, opened>>
    /\ UNCHANGED <<flt, qry, heap, opn, xfer, walk>>

\* Bitmap(len(records)), lines 267 and 279
InitBitmap ==
    /\ \E size \in 0..MaxBitmapSize :
          bmp = [size |-> size, bits |-> {}, op |-> "init", rec_no |-> 0]
    /\ dbfFile = <<>>
    /\ hdr = None
    /\ filePos = 0
    /\ dbt = <<>>
    /\ nAppended = 0
    /\ lastOp = None
    /\ nOps = 0
    /\ headerHit = FALSE
    /\ prevFile = <<>>
    /\ memoLog = <<>>
    /\ pend = None
    /\ nCrash = 0
    /\ justWrote = FALSE
    /\ outTable = None
    /\ ndxFile = <<>>
    /\ ndxField = 0
    /\ lastFind = None
    /\ schema = None
    /\ opened = None
    /\ flt = None
    /\ qry = None
    /\ heap = None
    /\ opn = None
    /\ xfer = None
    /\ walk = None

NextBitmap ==
    \/ \E rec_no \in BitNumbers : BmSetBit(rec_no)
    \/ \E rec_no \in BitNumbers : BmClearBit(rec_no)
    \/ BmSetAll
    \/ BmClearAll

SpecBitmap == InitBitmap /\ [][NextBitmap]_vars

\* the 1-based record numbers of the table the bitmap was created for
RecordNumbers == 1..bmp.size

\* C30: a Bitmap created for a table of n records holds every record number
\* of the table: after set_bit(r) for a record number r in 1..n, get_bit(r)
\* is true, and after set_all the bits set are exactly the record numbers.
C30_BitmapHoldsRecordNumbers ==
    bmp # None
    => /\ (bmp.op = "set_bit" /\ bmp.rec_no \in RecordNumbers)
          => get_bit(bmp.bits, bmp.rec_no)
       /\ bmp.op = "set_all" => bmp.bits = RecordNumbers

====
